---- MODULE Spec2Model ----
(***************************************************************************)
(* A model of the mini-react reconciler (core/reconciler.ts), its DOM      *)
(* helpers (core/dom.ts), the hook store (core/hooks.ts: useState,         *)
(* useEffect, cleanupUnusedHooks) and the render scheduler                 *)
(* (core/render.ts).                                                       *)
(*                                                                         *)
(* The application that is rendered is a root component App whose first    *)
(* state slot holds the tree it returns; the environment drives the        *)
(* program only through state setters, as event handlers do.               *)
(***************************************************************************)
EXTENDS Integers, Sequences, FiniteSets, TLC

VARIABLES
  prog,       \* the tree App starts with (the argument of its useState)
  dom,        \* the render target: [kids, par, tag, val, next]
  heap,       \* the Instance objects, by object identity
  root,       \* context.root.instance (an Instance identity or NoInst)
  hooks,      \* context.hooks: [state, cursor, visited, componentStack]
  queue,      \* context.effects.queue
  tasks,      \* the microtask queue: "render" and "flush" jobs
  scheduled,  \* the flag of withEnqueue(render)
  passes,     \* number of render passes run so far
  ops,        \* render-target mutations performed by the last render pass
  fxlog,      \* history: every effect body / cleanup invocation, in order
  nextFx,     \* history: identity counter for effect closures
  threw,      \* history: a job ended with an error (render target, effect body)
  last        \* history: what the last step was and what it observed

vars == <<prog, dom, heap, root, hooks, queue, tasks, scheduled, passes,
          ops, fxlog, nextFx, threw, last>>

----------------------------------------------------------------------------
(* Bounds *)

NumKeys == 3      \* keyed siblings under the list host
MaxPasses == 3    \* render passes in one behaviour
MaxVal == 2       \* largest counter value a setter is asked to write

----------------------------------------------------------------------------
(* Values *)

NoKey == "<null>"          \* key: null
NoDom == 0                 \* null DOM reference
NoInst == 0                \* null Instance reference
NoFn == 0                  \* cleanup: null
Container == 1             \* context.root.container
Undef == -1                \* undefined
NaN == -2                  \* undefined + 1

TEXT_ELEMENT == "#text"
Fragment == "#fragment"
NullType == "#null"

CompTypes == {"App", "Counter", "Other", "Thrower", "Syncer", "Deriver", "Memo", "DeepMemo",
              "MemoCounter", "Toggle", "Memoizer", "Caller"}

\* the components made by memo(Inner) and deepMemo(Inner)
MemoTypes == {"Memo", "DeepMemo", "MemoCounter"}
IsComponent(type) == type \in CompTypes

\* Function.name of a component function; memo returns the arrow function
\* bound to const MemoizedComponent
CompName(type) == IF type \in MemoTypes THEN "MemoizedComponent" ELSE type

NoDeps == [has |-> FALSE, list |-> <<>>]
Deps(l) == [has |-> TRUE, list |-> l]

Props(v, deps, ret, children) ==
  [v |-> v, deps |-> deps, ret |-> ret, children |-> children]

VNode(type, key, props) == [type |-> type, key |-> key, props |-> props]

NullNode == VNode(NullType, NoKey, Props(0, NoDeps, FALSE, <<>>))
TextNode(v) == VNode(TEXT_ELEMENT, NoKey, Props(v, NoDeps, FALSE, <<>>))
HostNode(tag, key, v, children) == VNode(tag, key, Props(v, NoDeps, FALSE, children))
FragNode(key, children) == VNode(Fragment, key, Props(0, NoDeps, FALSE, children))
CompNode(type, key, deps, ret) == VNode(type, key, Props(0, deps, ret, <<>>))

IsNull(node) == node.type = NullType

----------------------------------------------------------------------------
(* core/elements.ts *)

\* a value that is no VNode: a number, a string, true or an array; props.v is
\* the number or the text of the string
IsRaw(node) == node.type \in {"#number", "#string", "#true", "#array"}

\* normalizeNode, on the values a component of this model returns: null,
\* a number, a string, true, an array or a canonical VNode
normalizeNode(node) ==
  IF IsNull(node) THEN NullNode
  ELSE IF node.type \in {"#number", "#string"} THEN TextNode(node.props.v)
  ELSE IF node.type \in {"#true", "#array"} THEN NullNode
  ELSE node

\* a mutant of createChildPath: the key is ignored
createChildPathByIndex(parentPath, key, index, nodeType) ==
  LET typeName == IF nodeType \in {TEXT_ELEMENT, Fragment} THEN "Unknown"
                  ELSE IF IsComponent(nodeType) THEN CompName(nodeType)
                  ELSE nodeType
  IN parentPath \o ".c" \o typeName \o "_" \o ToString(index)

createChildPath(parentPath, key, index, nodeType) ==
  IF key # NoKey THEN parentPath \o ".k" \o key
  ELSE LET typeName == IF nodeType \in {TEXT_ELEMENT, Fragment} THEN "Unknown"
                       ELSE IF IsComponent(nodeType) THEN CompName(nodeType)
                       ELSE nodeType
       IN parentPath \o ".c" \o typeName \o "_" \o ToString(index)

----------------------------------------------------------------------------
(* Maps (JS Map) as functions *)

\* the element of a one-element set: The({e(x) : x \in {v}}) is e(v), with v
\* computed once (const x = v; ... e(x))
The(s) == CHOOSE y \in s : TRUE

MapHas(m, k) == k \in DOMAIN m
MapSet(m, k, v) == [x \in DOMAIN m \cup {k} |-> IF x = k THEN v ELSE m[x]]
MapDel(m, k) == [x \in DOMAIN m \ {k} |-> m[x]]
EmptyMap == [x \in {} |-> 0]

----------------------------------------------------------------------------
(* The render target (DOM).  S.dom = [kids, par, tag, val, next]          *)

NewDom(S, tag, val) ==
  LET n == S.dom.next IN
  [S EXCEPT !.dom = [kids |-> MapSet(S.dom.kids, n, <<>>),
                     par  |-> MapSet(S.dom.par, n, NoDom),
                     tag  |-> MapSet(S.dom.tag, n, tag),
                     val  |-> MapSet(S.dom.val, n, val),
                     next |-> n + 1]]

IndexOf(seq, x) ==
  IF \E i \in 1..Len(seq) : seq[i] = x
  THEN CHOOSE i \in 1..Len(seq) : seq[i] = x /\ \A j \in 1..(i-1) : seq[j] # x
  ELSE 0

Without(seq, x) == SelectSeq(seq, LAMBDA y : y # x)

InsertAt(seq, i, x) == SubSeq(seq, 1, i - 1) \o <<x>> \o SubSeq(seq, i, Len(seq))

parentNode(S, n) == S.dom.par[n]

nextSibling(S, n) ==
  LET p == S.dom.par[n] IN
  IF p = NoDom THEN NoDom
  ELSE LET i == IndexOf(S.dom.kids[p], n) IN
       IF i < Len(S.dom.kids[p]) THEN S.dom.kids[p][i + 1] ELSE NoDom

previousSibling(S, n) ==
  LET p == S.dom.par[n] IN
  IF p = NoDom THEN NoDom
  ELSE LET i == IndexOf(S.dom.kids[p], n) IN
       IF i > 1 THEN S.dom.kids[p][i - 1] ELSE NoDom

firstElementChild(S, p) ==
  LET ks == SelectSeq(S.dom.kids[p], LAMBDA n : S.dom.tag[n] # TEXT_ELEMENT) IN
  IF Len(ks) > 0 THEN ks[1] ELSE NoDom

\* the node leaves its current parent (first step of every DOM insertion)
Detach(d, n) ==
  IF d.par[n] = NoDom THEN d
  ELSE [d EXCEPT !.kids[d.par[n]] = Without(@, n), !.par[n] = NoDom]

Log(S, op, n, ref) == [S EXCEPT !.ops = Append(@, [op |-> op, node |-> n, ref |-> ref])]

\* parent.insertBefore(node, anchor), anchor non-null
insertBefore(S, p, n, a) ==
  IF S.dom.par[a] # p THEN [S EXCEPT !.err = TRUE]      \* NotFoundError
  ELSE IF n = a THEN Log(S, "insertBefore", n, a)
  ELSE LET d1 == Detach(S.dom, n)
           i == IndexOf(d1.kids[p], a)
           d2 == [d1 EXCEPT !.kids[p] = InsertAt(@, i, n), !.par[n] = p]
       IN Log([S EXCEPT !.dom = d2], "insertBefore", n, a)

appendChild(S, p, n) ==
  LET d1 == Detach(S.dom, n)
      d2 == [d1 EXCEPT !.kids[p] = Append(@, n), !.par[n] = p]
  IN Log([S EXCEPT !.dom = d2], "appendChild", n, NoDom)

\* parent.removeChild(node); callers check node.parentNode === parent
removeChild(S, p, n) ==
  IF S.dom.par[n] # p THEN [S EXCEPT !.err = TRUE]      \* NotFoundError
  ELSE Log([S EXCEPT !.dom = Detach(S.dom, n)], "removeChild", n, NoDom)

\* if (anchor) insertBefore else appendChild
Place(S, p, n, a) == IF a # NoDom THEN insertBefore(S, p, n, a) ELSE appendChild(S, p, n)

\* a property or text write on a node
WriteVal(S, n, v) ==
  Log([S EXCEPT !.dom.val[n] = v], "write", n, NoDom)

----------------------------------------------------------------------------
(* Instances.  S.heap[i] = [kind, node, dom, children, key, path] plus     *)
(* history fields, which no operation reads:                               *)
(*   born       pass in which the object was created                       *)
(*   via        "mount" (reconcile branch 2) or "remount" (branch 3)       *)
(*   gone       how the object left the tree: "null" (branch 1),           *)
(*              "remount" (branch 3), "unlisted" (no next child matched)   *)
(*   fxChanges  updates of a component in which its deps prop changed      *)
(*   plain      every render so far had a one-element deps list and an     *)
(*              effect that returns a cleanup                              *)

HOST == "host"
FRAGMENT == "fragment"
COMPONENT == "component"
TEXT == "text"

NewInst(S, rec) ==
  [S EXCEPT !.heap = Append(@, rec)]

\* identity of the object the next NewInst creates
NextInst(S) == Len(S.heap) + 1

RECURSIVE getDomNodes(_, _)
RECURSIVE getDomNodesOfChildren(_, _)
getDomNodes(S, i) ==
  IF i = NoInst THEN <<>>
  ELSE IF S.heap[i].kind \in {FRAGMENT, COMPONENT}
       THEN getDomNodesOfChildren(S, S.heap[i].children)
  ELSE IF S.heap[i].dom # NoDom THEN <<S.heap[i].dom>>
  ELSE <<>>
getDomNodesOfChildren(S, cs) ==
  IF cs = <<>> THEN <<>>
  ELSE getDomNodes(S, Head(cs)) \o getDomNodesOfChildren(S, Tail(cs))

RECURSIVE getFirstDom(_, _)
RECURSIVE getFirstDomFromChildren(_, _)
getFirstDom(S, i) ==
  IF i = NoInst THEN NoDom
  ELSE IF S.heap[i].dom # NoDom THEN S.heap[i].dom
  ELSE getFirstDomFromChildren(S, S.heap[i].children)
getFirstDomFromChildren(S, cs) ==
  IF cs = <<>> THEN NoDom
  ELSE LET d == getFirstDom(S, Head(cs)) IN
       IF d # NoDom THEN d ELSE getFirstDomFromChildren(S, Tail(cs))

\* for (const node of nodes) if (node.parentNode === parentDom) parentDom.removeChild(node)
RECURSIVE RemoveNodes(_, _, _)
RemoveNodes(S, parentDom, nodes) ==
  IF nodes = <<>> THEN S
  ELSE LET n == Head(nodes)
           S1 == IF parentNode(S, n) = parentDom THEN removeChild(S, parentDom, n) ELSE S
       IN RemoveNodes(S1, parentDom, Tail(nodes))

removeInstance(S, parentDom, i) ==
  IF i = NoInst THEN S ELSE RemoveNodes(S, parentDom, getDomNodes(S, i))

\* insertInstance(parentDom, instance, anchor): every node of the instance is
\* inserted before the anchor or, without an anchor, appended; an error of
\* insertBefore ends the loop.  Nothing happens for a null instance or an
\* instance without nodes; with nodes and a null parentDom the first call on
\* parentDom raises a TypeError and nothing is changed
insertInstance(S, parentDom, i, anchor) ==
  LET RECURSIVE InsertNodes(_, _)
      InsertNodes(T, nodes) ==
        IF nodes = <<>> \/ T.err THEN T
        ELSE InsertNodes(Place(T, parentDom, Head(nodes), anchor), Tail(nodes))
  IN IF i = NoInst \/ getDomNodes(S, i) = <<>> THEN S
     ELSE IF parentDom = NoDom THEN [S EXCEPT !.err = TRUE]
     ELSE InsertNodes(S, getDomNodes(S, i))

\* setDomProps / updateDomProps, for the one attribute hosts of this model carry
setDomProps(S, d, props) == [S EXCEPT !.dom.val[d] = props.v]

updateDomProps(S, d, prevProps, nextProps) ==
  IF prevProps.v # nextProps.v THEN WriteVal(S, d, nextProps.v) ELSE S

----------------------------------------------------------------------------
(* The hook store.  S.hooks = [state, order, cursor, visited,               *)
(* componentStack]; order lists the keys of the Map state in insertion     *)
(* order, the order in which the Map is iterated.                          *)

\* context.hooks.state.set(path, hs)
StateSet(h, path, hs) ==
  [h EXCEPT !.state = MapSet(@, path, hs),
            !.order = IF MapHas(h.state, path) THEN @ ELSE Append(@, path)]

\* context.hooks.state.delete(path)
StateDel(h, path) ==
  [h EXCEPT !.state = MapDel(@, path), !.order = Without(@, path)]

StateSlot(v) == [kind |-> "state", value |-> v, deps |-> NoDeps, cleanup |-> NoFn,
                 effect |-> [id |-> 0, owner |-> NoInst, ret |-> FALSE]]
EffectSlot(deps, cleanup, effect) ==
  [kind |-> "effect", value |-> 0, deps |-> deps, cleanup |-> cleanup, effect |-> effect]

\* context.hooks.currentPath / currentCursor / currentHooks
currentPath(S) == S.hooks.componentStack[Len(S.hooks.componentStack)]
currentCursor(S) ==
  IF MapHas(S.hooks.cursor, currentPath(S)) THEN S.hooks.cursor[currentPath(S)] ELSE 0
currentHooks(S) ==
  IF MapHas(S.hooks.state, currentPath(S)) THEN S.hooks.state[currentPath(S)] ELSE <<>>

\* shallowEquals on dependency lists
shallowEquals(a, b) ==
  /\ a.has /\ b.has
  /\ Len(a.list) = Len(b.list)
  /\ \A i \in 1..Len(a.list) : a.list[i] = b.list[i]

\* hooks[cursor] of a JS array (cursor counts from 0)
SlotAt(hs, cursor) == IF cursor + 1 \in 1..Len(hs) THEN hs[cursor + 1] ELSE StateSlot(Undef)

\* the initial value is evaluated for slot cursor of path (the thunk is
\* called): noted in the log
Evaluated(S, path, cursor) ==
  [S EXCEPT !.fxlog = Append(@, [ev |-> "init", id |-> cursor, owner |-> 0,
                                 by |-> "render", path |-> path])]

\* a mutant of useState: the initial value is evaluated in every call
useStateEvaluatesAgain(S, initialValue) ==
  LET path == currentPath(S)
      cursor == currentCursor(S)
      hs == currentHooks(S)
      first == cursor >= Len(hs)
      hs1 == IF first THEN Append(hs, StateSlot(initialValue)) ELSE hs
      S1 == IF first THEN [Evaluated(S, path, cursor) EXCEPT !.hooks = StateSet(@, path, hs1)]
            ELSE Evaluated(S, path, cursor)
  IN [s |-> [S1 EXCEPT !.hooks.cursor = MapSet(@, path, cursor + 1)],
      value |-> SlotAt(hs1, cursor).value]

\* useState(initialValue): the value returned and the store afterwards
useState(S, initialValue) ==
  LET path == currentPath(S)
      cursor == currentCursor(S)
      hs == currentHooks(S)
      first == cursor >= Len(hs)
      hs1 == IF first THEN Append(hs, StateSlot(initialValue)) ELSE hs
      S1 == IF first THEN [Evaluated(S, path, cursor) EXCEPT !.hooks = StateSet(@, path, hs1)]
            ELSE S
  IN [s |-> [S1 EXCEPT !.hooks.cursor = MapSet(@, path, cursor + 1)],
      value |-> SlotAt(hs1, cursor).value]

useEffectShouldRunSkipsNoDeps(hasPrev, prevDeps, deps) ==
  ~hasPrev \/ (deps.has /\ ~shallowEquals(prevDeps, deps))

\* shouldRun of useEffect
useEffectShouldRun(hasPrev, prevDeps, deps) ==
  ~hasPrev \/ ~deps.has \/ ~shallowEquals(prevDeps, deps)

\* a mutant of useEffect: the effect body is invoked by the call itself
useEffectRunsAtCall(S, effect, deps) ==
  LET path == currentPath(S)
      cursor == currentCursor(S)
      hs == currentHooks(S)
      hasPrev == cursor < Len(hs) /\ hs[cursor + 1].kind = "effect"
      prevHook == SlotAt(hs, cursor)
      shouldRun == useEffectShouldRun(hasPrev, prevHook.deps, deps)
      effectHook == EffectSlot(deps, IF hasPrev THEN prevHook.cleanup ELSE NoFn, effect)
      hs1 == IF cursor >= Len(hs) THEN Append(hs, effectHook)
             ELSE [hs EXCEPT ![cursor + 1] = effectHook]
  IN [S EXCEPT !.hooks = [StateSet(@, path, hs1) EXCEPT !.cursor = MapSet(@, path, cursor + 1)],
               !.fxlog = IF shouldRun
                         THEN Append(@, [ev |-> "effect", id |-> effect.id,
                                         owner |-> effect.owner, by |-> "render"])
                         ELSE @]

\* useEffect(effect, deps)
useEffect(S, effect, deps) ==
  LET path == currentPath(S)
      cursor == currentCursor(S)
      hs == currentHooks(S)
      hasPrev == cursor < Len(hs) /\ hs[cursor + 1].kind = "effect"
      prevHook == SlotAt(hs, cursor)
      shouldRun == useEffectShouldRun(hasPrev, prevHook.deps, deps)
      effectHook == EffectSlot(deps, IF hasPrev THEN prevHook.cleanup ELSE NoFn, effect)
      hs1 == IF cursor >= Len(hs) THEN Append(hs, effectHook)
             ELSE [hs EXCEPT ![cursor + 1] = effectHook]
  IN [S EXCEPT !.hooks = [StateSet(@, path, hs1) EXCEPT !.cursor = MapSet(@, path, cursor + 1)],
               !.queue = IF shouldRun THEN Append(@, [path |-> path, cursor |-> cursor]) ELSE @,
               !.fxlog = IF shouldRun
                         THEN Append(@, [ev |-> "queued", id |-> effect.id,
                                         owner |-> effect.owner, by |-> "render"])
                         ELSE @]

\* a fresh effect closure created by the component body of instance owner
NewEffect(S, owner, ret) == [id |-> S.nextFx, owner |-> owner, ret |-> ret]

\* hooks[cursor] = newValue on a JS array
ArraySet(hs, cursor, slot) ==
  IF cursor + 1 <= Len(hs) THEN [hs EXCEPT ![cursor + 1] = slot]
  ELSE hs \o [x \in 1..(cursor - Len(hs)) |-> StateSlot(Undef)] \o <<slot>>

\* the value a setter reads from its slot
StoredValue(hs, cursor) == SlotAt(hs, cursor).value

RECURSIVE render(_)

\* a mutant of enqueueRender: every request queues a render job
enqueueRenderEveryCall(S) == [S EXCEPT !.tasks = Append(@, "render"), !.scheduled = TRUE]

\* a mutant of enqueueRender: the pass runs inside the call
enqueueRenderNow(S) == [render(S).s EXCEPT !.pass = @ + 1]

\* enqueueRender = withEnqueue(render): a render job is queued unless one is pending
enqueueRender(S) ==
  IF S.scheduled THEN S ELSE [S EXCEPT !.tasks = Append(@, "render"), !.scheduled = TRUE]

\* nextValue of a setter call: a value, or an updater function
Value(v) == [fn |-> "value", v |-> v]
Updater(fn) == [fn |-> fn, v |-> 0]
ApplyArg(arg, cur) ==
  IF arg.fn = "value" THEN arg.v
  ELSE IF arg.fn = "inc" THEN (IF cur < 0 THEN NaN ELSE cur + 1)
  ELSE 1 - cur

\* a mutant of setState: the value is written and a render requested even when it is the same
setStateAlways(h, path, cursor, arg) ==
  LET hs == IF MapHas(h.state, path) THEN h.state[path] ELSE <<>>
      newValue == ApplyArg(arg, StoredValue(hs, cursor))
  IN [hooks |-> StateSet(h, path, ArraySet(hs, cursor, StateSlot(newValue))), request |-> TRUE]

\* a mutant of setState: the value is written, no render is requested
setStateNoRender(h, path, cursor, arg) ==
  LET hs == IF MapHas(h.state, path) THEN h.state[path] ELSE <<>>
      currentValue == StoredValue(hs, cursor)
      newValue == ApplyArg(arg, currentValue)
  IN IF currentValue = newValue THEN [hooks |-> h, request |-> FALSE]
     ELSE [hooks |-> StateSet(h, path, ArraySet(hs, cursor, StateSlot(newValue))),
           request |-> FALSE]

\* the setter returned by useState at (path, cursor): the store afterwards and
\* whether enqueueRender() is called
setState(h, path, cursor, arg) ==
  LET hs == IF MapHas(h.state, path) THEN h.state[path] ELSE <<>>
      currentValue == StoredValue(hs, cursor)
      newValue == ApplyArg(arg, currentValue)
  IN IF currentValue = newValue THEN [hooks |-> h, request |-> FALSE]
     ELSE [hooks |-> StateSet(h, path, ArraySet(hs, cursor, StateSlot(newValue))),
           request |-> TRUE]

----------------------------------------------------------------------------
(* The component functions of the application *)

CounterInit == 0
OtherInit == 5
SyncValue == 7

\* function App() { const [tree] = useState(prog); useState(0); return tree }
\* function Counter(p) { const [c] = useState(0); useEffect(() => p.ret ? cleanup : undefined, p.deps);
\*                       return <span v={c}/> }
\* function Other(p): as Counter, with initial state 5 and a <b> element
\* function Thrower(p): as Other, the effect being () => { throw new Error() }
\* function Syncer(p): as Other, the effect being () => { setC(SyncValue); return p.ret ? .. }
\* function Deriver(p): as Counter, calling setC(1) in its body while c is 0
\* function Toggle(p) { return ToggleOut(p.v) }
\* const Memo = memo(Inner), DeepMemo = deepMemo(Inner), with
\* function Inner(p) { return <span v={p.v}/> }, used as <Memo v={..} list={[..]}/>
\* const MemoCounter = memo(InnerCounter), with
\* function InnerCounter(p) { const [c, setC] = useState(0); return <span v={c}/> }
\* function Memoizer(p) { const [c] = useState(0); const m = useMemo(() => c, [c]);
\*                        return <span v={m}/> }
\* function Caller(p) { const [c] = useState(0); const cb = useAutoCallback(() => c);
\*                      return <span v={cb()}/> }
\* ref.current === null
NoMemo == [has |-> FALSE, props |-> Props(0, NoDeps, FALSE, <<>>), result |-> NullNode]

\* useRef(initialValue) of hooks/useRef.ts: the ref object lives in a state slot
useRef(S, initialValue) == useState(S, [current |-> initialValue])

\* ref.current = x on the ref object of slot cursor
SetRef(S, path, cursor, x) ==
  [S EXCEPT !.hooks.state[path][cursor + 1].value = [current |-> x]]

\* useMemo(factory, deps) with the default equals, for a factory that returns
\* v: the ref of the next slot holds null or {deps, value}; the factory is
\* called when the ref is empty or the dependencies differ, and its calls are
\* noted in the log
useMemo(S, v, deps) ==
  LET path == currentPath(S)
      cursor == currentCursor(S)
  IN The({ IF ~r.value.current.has \/ ~shallowEquals(r.value.current.deps, deps)
           THEN [s |-> SetRef([r.s EXCEPT !.fxlog = Append(@, [ev |-> "factory", id |-> cursor,
                                                               owner |-> 0, by |-> "render"])],
                              path, cursor, [has |-> TRUE, deps |-> deps, value |-> v]),
                 value |-> v]
           ELSE [s |-> r.s, value |-> r.value.current.value]
           : r \in {useRef(S, [has |-> FALSE, deps |-> NoDeps, value |-> 0])} })

\* useAutoCallback(fn), for a function fn that returns the value it captured:
\* a ref holds fn and is rewritten in every render; the callback, made once by
\* useCallback(.., []) = useMemo(() => .., []) of hooks/useCallback.ts, calls
\* ref.current and is written as the cursor of the ref it reads
useAutoCallback(S, fn) ==
  LET path == currentPath(S)
      cursor == currentCursor(S)
  IN The({ useMemo(SetRef(r.s, path, cursor, fn), cursor, Deps(<<>>))
           : r \in {useRef(S, fn)} })

\* equals(prevProps, props): shallowEquals compares the props by Object.is, and
\* the list prop is a new array in every render; deepEquals compares by content
PropsEqual(deep, a, b) ==
  IF deep THEN a = b
  ELSE a.v = b.v /\ a.ret = b.ret /\ ~a.deps.has /\ ~b.deps.has

\* the wrapped component function; its calls are noted in the log
Inner(S, node, owner) ==
  IF node.type = "MemoCounter"
  THEN The({ [s |-> r.s, out |-> HostNode("span", NoKey, r.value, <<>>)]
             : r \in {useState([S EXCEPT !.fxlog = Append(@, [ev |-> "call", id |-> 0,
                                                              owner |-> owner, by |-> "render"])],
                               CounterInit)} })
  ELSE [s |-> [S EXCEPT !.fxlog = Append(@, [ev |-> "call", id |-> 0, owner |-> owner,
                                             by |-> "render"])],
        out |-> HostNode("span", NoKey, node.props.v, <<>>)]

\* a mutant of memo: the wrapped function is invoked in every render
memoAlways(S, node, owner, deep) ==
  LET path == currentPath(S)
      cursor == currentCursor(S)
  IN The({ The({ [s |-> SetRef(c.s, path, cursor,
                               [has |-> TRUE, props |-> node.props, result |-> c.out]),
                  out |-> c.out]
                 : c \in {Inner(r.s, node, owner)} })
           : r \in {useRef(S, NoMemo)} })

\* MemoizedComponent(props) of memo(Inner, equals)
memo(S, node, owner, deep) ==
  LET path == currentPath(S)
      cursor == currentCursor(S)
  IN The({ IF ~r.value.current.has \/ ~PropsEqual(deep, r.value.current.props, node.props)
           THEN The({ [s |-> SetRef(c.s, path, cursor,
                                    [has |-> TRUE, props |-> node.props, result |-> c.out]),
                       out |-> c.out]
                      : c \in {Inner(r.s, node, owner)} })
           ELSE [s |-> r.s, out |-> r.value.current.result]
           : r \in {useRef(S, NoMemo)} })

\* what Toggle returns for p.v: null, <span v={1}/>, <b v={2}/>, the number 0,
\* the string "7", true, the array [<span v={1}/>], or <><span v={1}/></>
ToggleOut(v) ==
  IF v = 0 THEN NullNode
  ELSE IF v = 1 THEN HostNode("span", NoKey, 1, <<>>)
  ELSE IF v = 2 THEN HostNode("b", NoKey, 2, <<>>)
  ELSE IF v = 3 THEN VNode("#number", NoKey, Props(0, NoDeps, FALSE, <<>>))
  ELSE IF v = 4 THEN VNode("#string", NoKey, Props(7, NoDeps, FALSE, <<>>))
  ELSE IF v = 5 THEN VNode("#true", NoKey, Props(0, NoDeps, FALSE, <<>>))
  ELSE IF v = 6
       THEN VNode("#array", NoKey, Props(0, NoDeps, FALSE, <<HostNode("span", NoKey, 1, <<>>)>>))
  ELSE FragNode(NoKey, <<HostNode("span", NoKey, 1, <<>>)>>)

Component(S, node, owner) ==
  IF node.type = "App" THEN
    The({ [s |-> useState(r1.s, 0).s, out |-> r1.value] : r1 \in {useState(S, S.prog)} })
  ELSE IF node.type \in MemoTypes THEN memo(S, node, owner, node.type = "DeepMemo")
  ELSE IF node.type = "Toggle" THEN [s |-> S, out |-> ToggleOut(node.props.v)]
  ELSE IF node.type = "Memoizer" THEN
    The({ The({ [s |-> m.s, out |-> HostNode("span", NoKey, m.value, <<>>)]
                : m \in {useMemo(r1.s, r1.value, Deps(<<r1.value>>))} })
          : r1 \in {useState(S, CounterInit)} })
  ELSE IF node.type = "Caller" THEN
    The({ The({ [s |-> cb.s,
                 out |-> HostNode("span", NoKey,
                                  SlotAt(currentHooks(cb.s), cb.value).value.current, <<>>)]
                : cb \in {useAutoCallback(r1.s, r1.value)} })
          : r1 \in {useState(S, CounterInit)} })
  ELSE IF node.type = "Deriver" THEN
    The({ The({ [s |-> IF r1.value # CounterInit THEN e
                       ELSE The({ IF w.request THEN enqueueRender([e EXCEPT !.hooks = w.hooks])
                                  ELSE [e EXCEPT !.hooks = w.hooks]
                                  : w \in {setState(e.hooks, currentPath(S), 0,
                                                    Value(1))} }),
                 out |-> HostNode("span", NoKey, r1.value, <<>>)]
                : e \in {[useEffect(r1.s, NewEffect(r1.s, owner, node.props.ret),
                                    node.props.deps)
                           EXCEPT !.nextFx = @ + 1]} })
          : r1 \in {useState(S, CounterInit)} })
  ELSE
    The({ [s |-> [useEffect(r1.s, NewEffect(r1.s, owner, node.props.ret), node.props.deps)
                    EXCEPT !.nextFx = @ + 1],
           out |-> HostNode(IF node.type = "Counter" THEN "span" ELSE "b",
                            NoKey, r1.value, <<>>)]
          : r1 \in {useState(S, IF node.type = "Counter" THEN CounterInit ELSE OtherInit)} })

----------------------------------------------------------------------------
(* core/reconciler.ts.  Every operation returns [s |-> the state after it, *)
(* r |-> the Instance it returns (NoInst for null)].  An error raised by a *)
(* call (s.err) leaves every caller at the call: the statements after it  *)
(* are not executed, the finally blocks of the component operations are.  *)

RECURSIVE reconcile(_, _, _, _, _, _)
RECURSIVE mountComponent(_, _, _, _, _, _)
RECURSIVE updateComponent(_, _, _, _, _)
RECURSIVE mountHost(_, _, _, _, _, _)
RECURSIVE mountHostChildren(_, _, _, _, _, _)
RECURSIVE updateHost(_, _, _, _, _)
RECURSIVE hostForward(_, _, _, _, _, _, _, _, _)
RECURSIVE mountFragment(_, _, _, _, _, _)
RECURSIVE mountFragmentChildren(_, _, _, _, _, _, _)
RECURSIVE updateFragment(_, _, _, _, _)
RECURSIVE fragmentForward(_, _, _, _, _, _, _, _, _)

IsPlain(node) ==
  node.props.deps.has /\ Len(node.props.deps.list) = 1 /\ node.props.ret

Inst(kind, d, node, children, path, S, via) ==
  [kind |-> kind, dom |-> d, node |-> node, children |-> children, key |-> node.key,
   path |-> path, born |-> S.pass, via |-> via, gone |-> "", fxChanges |-> 0,
   plain |-> IsPlain(node), mountPath |-> path]

Gone(S, i, how) == IF i = NoInst THEN S ELSE [S EXCEPT !.heap[i].gone = how]

Push(S, path) == [S EXCEPT !.hooks.componentStack = Append(@, path)]
Pop(S) == [S EXCEPT !.hooks.componentStack = SubSeq(@, 1, Len(@) - 1)]

\* a mutant of MigratePath: nothing moves
MigratePathNothing(S, oldPath, path) == S

\* the migration block of updateComponent / reconcile: state, cursor and
\* visited marker move from oldPath to path
MigratePath(S, oldPath, path) ==
  LET h == S.hooks
      h1 == IF MapHas(h.state, oldPath)
            THEN StateDel(StateSet(h, path, h.state[oldPath]), oldPath) ELSE h
      cu == IF MapHas(h.cursor, oldPath)
            THEN MapDel(MapSet(h.cursor, path, h.cursor[oldPath]), oldPath) ELSE h.cursor
      vi == IF oldPath \in h.visited THEN (h.visited \ {oldPath}) \cup {path} ELSE h.visited
  IN [S EXCEPT !.hooks = [h1 EXCEPT !.cursor = cu, !.visited = vi]]

\* instance.dom = getFirstDom(instance)
SetFirstDom(S, i) == [S EXCEPT !.heap[i].dom = getFirstDom(S, i)]

\* if (childInstance && childInstance.path !== childPath) childInstance.path = childPath
SetPath(S, i, path) ==
  IF i # NoInst /\ S.heap[i].path # path THEN [S EXCEPT !.heap[i].path = path] ELSE S

\* a ?? b on render-target references
OrElse(a, b) == IF a # NoDom THEN a ELSE b

\* a mutant of mountComponent's entry: the path's slots are dropped first
EnterMountFresh(S, path) ==
  [S EXCEPT !.hooks = [StateDel(@, path) EXCEPT !.componentStack = Append(@, path),
                                                !.cursor = MapSet(@, path, 0),
                                                !.visited = @ \cup {path}]]

\* mountComponent, lines 28-31: push the path, reset its cursor, mark it visited
EnterMount(S, path) ==
  [S EXCEPT !.hooks.componentStack = Append(@, path),
            !.hooks.cursor = MapSet(@, path, 0),
            !.hooks.visited = @ \cup {path}]

mountComponent(S, parentDom, node, path, anchor, via) ==
  LET me == NextInst(S)
      S2 == NewInst(EnterMount(S, path), Inst(COMPONENT, NoDom, node, <<>>, path, S, via))
  IN The({ The({ [s |-> Pop(IF r.s.err THEN r.s
                                ELSE SetFirstDom([r.s EXCEPT !.heap[me].children =
                                                    IF r.r # NoInst THEN <<r.r>> ELSE <<>>],
                                                 me)),
                  r |-> IF r.s.err THEN NoInst ELSE me]
                 : r \in {IF ~IsNull(c.out) /\ ~(c.out.type = "#number" /\ c.out.props.v = 0)
                          THEN reconcile(c.s, parentDom, NoInst, c.out, path \o ".c0", anchor)
                          ELSE [s |-> c.s, r |-> NoInst]} })
           : c \in {Component(S2, node, me)} })

\* after a migration the store the component function is invoked with is
\* noted in the log, where updateComponent writes to the console
updateComponent(S, parentDom, i, node, path) ==
  LET oldPath == S.heap[i].path
      depsChanged == S.heap[i].node.props.deps # node.props.deps
  IN The({ The({ The({ [s |-> [Pop(IF r.s.err THEN r.s
                                     ELSE SetFirstDom(
                                  [r.s EXCEPT !.heap[i].node = node,
                                              !.heap[i].children =
                                                 IF r.r # NoInst THEN <<r.r>> ELSE <<>>,
                                              !.heap[i].path = path,
                                              !.heap[i].fxChanges =
                                                 IF depsChanged THEN @ + 1 ELSE @,
                                              !.heap[i].plain = @ /\ IsPlain(node)], i))
                                 EXCEPT !.hooks.cursor =
                                   MapSet(@, path, IF MapHas(S0.hooks.cursor, path)
                                                   THEN S0.hooks.cursor[path] ELSE 0)],
                        r |-> IF r.s.err THEN NoInst ELSE i]
                       : r \in {LET childNode == normalizeNode(c.out)
                                    prevChild == IF Len(c.s.heap[i].children) > 0
                                                 THEN c.s.heap[i].children[1] ELSE NoInst
                                    shouldRemovePrevChild ==
                                      \/ IsNull(childNode)
                                      \/ /\ ~IsComponent(childNode.type)
                                         /\ Len(childNode.props.children) = 0
                                         /\ prevChild # NoInst
                                         /\ c.s.heap[prevChild].kind = FRAGMENT
                                IN reconcile(c.s, parentDom, prevChild,
                                             IF shouldRemovePrevChild THEN NullNode ELSE childNode,
                                             path \o ".c0", NoDom)} })
                 : c \in {Component([S1 EXCEPT !.fxlog =
                                        IF oldPath = path THEN @
                                        ELSE Append(@, [ev |-> "migrated", id |-> 0, owner |-> i,
                                                        by |-> "render", old |-> oldPath,
                                                        path |-> path,
                                                        state |-> S1.hooks.state,
                                                        visited |-> S1.hooks.visited])],
                                     node, i)
                           : S1 \in {[S0 EXCEPT !.hooks.componentStack = Append(@, path),
                                                 !.hooks.cursor = MapSet(@, path, 0),
                                                 !.hooks.visited = @ \cup {path}]}} })
           : S0 \in {IF oldPath # path THEN MigratePath(S, oldPath, path) ELSE S} })

\* the child loop of mountHost: children mounted under the new element
mountHostChildren(S, d, childNodes, path, i, acc) ==
  IF i > Len(childNodes) THEN [s |-> S, r |-> acc]
  ELSE LET childNode == childNodes[i]
           childPath == createChildPath(path, childNode.key, i - 1, childNode.type)
       IN The({ IF r.s.err THEN [s |-> r.s, r |-> acc]
                ELSE mountHostChildren(r.s, d, childNodes, path, i + 1, Append(acc, r.r))
                : r \in {reconcile(S, d, NoInst, childNode, childPath, NoDom)} })

\* a node that is no VNode (a string, true, an array) has no type and no
\* props: document.createElement(undefined) creates an element, setDomProps
\* raises a TypeError
mountHost(S, parentDom, node, path, anchor, via) ==
  LET d == S.dom.next IN
  IF IsRaw(node) THEN [s |-> [NewDom(S, "undefined", 0) EXCEPT !.err = TRUE], r |-> NoInst]
  ELSE
  The({ IF cs.s.err THEN [s |-> cs.s, r |-> NoInst]
        ELSE The({ IF S2.err THEN [s |-> S2, r |-> NoInst]
                   ELSE [s |-> NewInst(S2, Inst(HOST, d, node, cs.r, path, S2, via)),
                         r |-> NextInst(S2)]
                   : S2 \in {Place(cs.s, parentDom, d, anchor)} })
        : cs \in {mountHostChildren(setDomProps(NewDom(S, node.type, 0), d, node.props),
                                    d, node.props.children, path, 1, <<>>)} })

\* mountText
mountText(S, parentDom, node, anchor, via) ==
  LET d == S.dom.next IN
  The({ IF S2.err THEN [s |-> S2, r |-> NoInst]
        ELSE [s |-> NewInst(S2, Inst(TEXT, d, node, <<>>, "", S2, via)), r |-> NextInst(S2)]
        : S2 \in {Place(NewDom(S, TEXT_ELEMENT, node.props.v), parentDom, d, anchor)} })

\* a mutant of updateText: the text is written only when it changed
updateTextIfChanged(S, i, node) ==
  LET d == S.heap[i].dom IN
  [s |-> [(IF d # NoDom /\ S.dom.val[d] # node.props.v
           THEN WriteVal(S, d, node.props.v) ELSE S) EXCEPT !.heap[i].node = node],
   r |-> i]

\* updateText
updateText(S, i, node) ==
  LET d == S.heap[i].dom IN
  [s |-> [(IF d # NoDom THEN WriteVal(S, d, node.props.v) ELSE S) EXCEPT !.heap[i].node = node],
   r |-> i]

----------------------------------------------------------------------------
(* Child matching of updateHost / updateFragment *)

\* a mutant of KeyedMap: key -> the first previous child carrying it
KeyedMapFirstWins(S, prevChildren) ==
  LET keys == {S.heap[prevChildren[j]].key :
                 j \in {x \in 1..Len(prevChildren) : prevChildren[x] # NoInst}} \ {NoKey}
  IN [k \in keys |->
        prevChildren[CHOOSE j \in 1..Len(prevChildren) :
           /\ prevChildren[j] # NoInst /\ S.heap[prevChildren[j]].key = k
           /\ \A j2 \in 1..(j-1) :
                 prevChildren[j2] = NoInst \/ S.heap[prevChildren[j2]].key # k]]

\* keyedMap: key -> the last previous child carrying it
KeyedMap(S, prevChildren) ==
  LET keys == {S.heap[prevChildren[j]].key :
                 j \in {x \in 1..Len(prevChildren) : prevChildren[x] # NoInst}} \ {NoKey}
  IN [k \in keys |->
        prevChildren[CHOOSE j \in 1..Len(prevChildren) :
           /\ prevChildren[j] # NoInst /\ S.heap[prevChildren[j]].key = k
           /\ \A j2 \in (j+1)..Len(prevChildren) :
                 prevChildren[j2] = NoInst \/ S.heap[prevChildren[j2]].key # k]]

\* the keys of keyedMap in insertion order (first appearance)
RECURSIVE KeyOrder(_, _, _)
KeyOrder(S, prevChildren, acc) ==
  IF prevChildren = <<>> THEN acc
  ELSE LET c == Head(prevChildren)
           k == IF c = NoInst THEN NoKey ELSE S.heap[c].key
       IN KeyOrder(S, Tail(prevChildren),
                   IF k = NoKey \/ (\E x \in 1..Len(acc) : acc[x] = k) THEN acc ELSE Append(acc, k))

MinOf(set) == CHOOSE x \in set : \A y \in set : x <= y
MaxOf(set) == CHOOSE x \in set : \A y \in set : x >= y
Abs(x) == IF x < 0 THEN -x ELSE x

\* previous child with prevChild.path === expectedPath, not yet used (first such)
MatchByPath(S, prevChildren, used, expectedPath) ==
  LET js == {j \in 1..Len(prevChildren) :
               /\ prevChildren[j] # NoInst
               /\ prevChildren[j] \notin used
               /\ S.heap[prevChildren[j]].path = expectedPath}
  IN IF js = {} THEN NoInst ELSE prevChildren[MinOf(js)]

\* a mutant of MatchByType: the nearest candidate, also at the last position
MatchByTypeNearest(S, prevChildren, used, childNode, i, isLastPosition) ==
  LET cands == {j \in 1..Len(prevChildren) :
                  /\ prevChildren[j] # NoInst
                  /\ prevChildren[j] \notin used
                  /\ S.heap[prevChildren[j]].key = NoKey
                  /\ S.heap[prevChildren[j]].node.type = childNode.type}
  IN IF cands = {} THEN NoInst
     ELSE LET minDistance == MinOf({Abs(j - i) : j \in cands})
          IN prevChildren[MinOf({j \in cands : Abs(j - i) = minDistance})]

\* a mutant of MatchByType: the first candidate, whatever the position
MatchByTypeFirst(S, prevChildren, used, childNode, i, isLastPosition) ==
  LET cands == {j \in 1..Len(prevChildren) :
                  /\ prevChildren[j] # NoInst
                  /\ prevChildren[j] \notin used
                  /\ S.heap[prevChildren[j]].key = NoKey
                  /\ S.heap[prevChildren[j]].node.type = childNode.type}
  IN IF cands = {} THEN NoInst ELSE prevChildren[MinOf(cands)]

\* the type fallback of updateHost (lines 280-354); i is the 1-based slot
MatchByType(S, prevChildren, used, childNode, i, isLastPosition) ==
  LET cands == {j \in 1..Len(prevChildren) :
                  /\ prevChildren[j] # NoInst
                  /\ prevChildren[j] \notin used
                  /\ S.heap[prevChildren[j]].key = NoKey
                  /\ S.heap[prevChildren[j]].node.type = childNode.type}
  IN IF cands = {} THEN NoInst
     ELSE IF isLastPosition THEN prevChildren[MaxOf(cands)]
     ELSE LET minDistance == MinOf({Abs(j - i) : j \in cands})
          IN prevChildren[MinOf({j \in cands : Abs(j - i) = minDistance})]

\* the matching loop of updateHost (lines 251-357): [insts, used]
RECURSIVE hostMatch(_, _, _, _, _, _, _)
hostMatch(S, prevChildren, nextChildren, path, keyedMap, i, acc) ==
  IF i > Len(nextChildren) THEN acc
  ELSE LET childNode == nextChildren[i] IN
       The({ hostMatch(S, prevChildren, nextChildren, path, keyedMap, i + 1,
                       [insts |-> Append(acc.insts, m),
                        used |-> IF m # NoInst THEN acc.used \cup {m} ELSE acc.used])
             : m \in {IF childNode.key # NoKey
                      THEN (IF MapHas(keyedMap, childNode.key)
                            THEN keyedMap[childNode.key] ELSE NoInst)
                      ELSE The({ IF byPath # NoInst THEN byPath
                                 ELSE MatchByType(S, prevChildren, acc.used, childNode, i,
                                                  i = Len(nextChildren))
                                 : byPath \in {MatchByPath(S, prevChildren, acc.used,
                                                 createChildPath(path, NoKey, i - 1,
                                                                 childNode.type))} })} })

\* the matching loop of updateFragment (lines 799-824)
RECURSIVE fragmentMatch(_, _, _, _, _, _, _)
fragmentMatch(S, prevChildren, nextChildren, path, keyedMap, i, acc) ==
  IF i > Len(nextChildren) THEN acc
  ELSE LET childNode == nextChildren[i] IN
       The({ fragmentMatch(S, prevChildren, nextChildren, path, keyedMap, i + 1,
                           [insts |-> Append(acc.insts, m),
                            used |-> IF m # NoInst THEN acc.used \cup {m} ELSE acc.used])
             : m \in {IF childNode.key # NoKey
                      THEN (IF MapHas(keyedMap, childNode.key)
                            THEN keyedMap[childNode.key] ELSE NoInst)
                      ELSE MatchByPath(S, prevChildren, acc.used,
                                       createChildPath(path, NoKey, i - 1, childNode.type))} })

\* first previous child with the key whose first DOM node is under parent
AnchorByKey(S, parent, prevChildren, key) ==
  LET js == {j \in 1..Len(prevChildren) :
               /\ prevChildren[j] # NoInst
               /\ S.heap[prevChildren[j]].key = key
               /\ getFirstDom(S, prevChildren[j]) # NoDom
               /\ parentNode(S, getFirstDom(S, prevChildren[j])) = parent}
  IN IF js = {} THEN NoDom ELSE getFirstDom(S, prevChildren[MinOf(js)])

\* first DOM node of the instance, if it is under parent
AnchorByInstance(S, parent, inst) ==
  LET d == getFirstDom(S, inst) IN
  IF d # NoDom /\ parentNode(S, d) = parent THEN d ELSE NoDom

\* the anchor loop of updateHost (lines 359-416): anchors[i-1 .. n], for 1-based slot i
RECURSIVE hostAnchors(_, _, _, _, _, _)
hostAnchors(S, d, prevChildren, nextChildren, childInstances, i) ==
  IF i > Len(nextChildren) THEN <<NoDom>>
  ELSE The({ The({ <<IF i + 1 <= Len(nextChildren) /\ a1 = rest[1]
                     THEN OrElse(AnchorByInstance(S, d, childInstances[i + 1]), a1)
                     ELSE a1>> \o rest
                   : a1 \in {IF i + 1 <= Len(nextChildren) /\ nextChildren[i + 1].key # NoKey
                             THEN OrElse(AnchorByKey(S, d, prevChildren, nextChildren[i + 1].key),
                                         rest[1])
                             ELSE rest[1]} })
             : rest \in {hostAnchors(S, d, prevChildren, nextChildren, childInstances, i + 1)} })

\* the anchor loop of updateFragment (lines 826-860)
RECURSIVE fragmentAnchors(_, _, _, _, _, _)
fragmentAnchors(S, parent, prevChildren, nextChildren, childInstances, i) ==
  IF i > Len(nextChildren) THEN <<NoDom>>
  ELSE The({ The({ <<IF i + 1 <= Len(nextChildren) /\ a1 = rest[1]
                        /\ nextChildren[i + 1].key # NoKey
                     THEN OrElse(AnchorByKey(S, parent, prevChildren, nextChildren[i + 1].key), a1)
                     ELSE a1>> \o rest
                   : a1 \in {IF i + 1 <= Len(nextChildren)
                             THEN OrElse(AnchorByInstance(S, parent, childInstances[i + 1]),
                                         rest[1])
                             ELSE rest[1]} })
             : rest \in {fragmentAnchors(S, parent, prevChildren, nextChildren,
                                         childInstances, i + 1)} })

----------------------------------------------------------------------------
(* updateHost *)

\* a mutant of MoveKeyed: the child is put before its anchor only when its
\* next sibling differs from the anchor
MoveKeyedByNextSibling(S, d, currentDom, anchor, i) ==
  LET currentNextSibling == nextSibling(S, currentDom) IN
  IF anchor # NoDom
  THEN IF currentNextSibling # anchor THEN insertBefore(S, d, currentDom, anchor) ELSE S
  ELSE IF currentNextSibling # NoDom THEN appendChild(S, d, currentDom) ELSE S

\* the move of a matched keyed child (lines 471-598); i is the 1-based slot
MoveKeyed(S, d, currentDom, anchor, i) ==
  LET currentNextSibling == nextSibling(S, currentDom) IN
  IF anchor # NoDom
  THEN LET anchorPrevSibling == previousSibling(S, anchor)
           currentPrevSibling == previousSibling(S, currentDom)
           needsMove == \/ currentNextSibling # anchor
                        \/ currentDom # anchorPrevSibling
                        \/ currentPrevSibling # NoDom
       IN IF needsMove /\ (currentDom # anchorPrevSibling \/ currentPrevSibling # NoDom)
          THEN IF currentPrevSibling # NoDom /\ i = 1
               THEN LET firstChild == firstElementChild(S, d) IN
                    IF firstChild # NoDom /\ firstChild # currentDom
                    THEN insertBefore(S, d, currentDom, firstChild) ELSE S
               ELSE insertBefore(S, d, currentDom, anchor)
          ELSE S
  ELSE IF currentNextSibling # NoDom THEN appendChild(S, d, currentDom) ELSE S

\* the forward loop of updateHost (lines 428-638): [s, r = newChildren, keyedMap]
hostForward(S, d, path, nextChildren, childInstances, anchors, keyedMap, i, newChildren) ==
  IF i > Len(nextChildren) THEN [s |-> S, r |-> newChildren, keyedMap |-> keyedMap]
  ELSE LET childNode == nextChildren[i]
           childKey == childNode.key
           childPath == createChildPath(path, childKey, i - 1, childNode.type)
           childInstance == childInstances[i]
           km == IF childInstance # NoInst /\ childKey # NoKey
                 THEN MapDel(keyedMap, childKey) ELSE keyedMap
           anchor == anchors[i]
           currentDom == getFirstDom(S, childInstance)
       IN The({ IF S1.err THEN [s |-> S1, r |-> newChildren, keyedMap |-> km]
                ELSE The({ IF r.s.err THEN [s |-> r.s, r |-> newChildren, keyedMap |-> km]
                           ELSE hostForward(SetPath(r.s, r.r, childPath), d, path,
                                            nextChildren, childInstances, anchors, km,
                                            i + 1, Append(newChildren, r.r))
                           : r \in {reconcile(S1, d, childInstance, childNode, childPath,
                                              anchor)} })
                : S1 \in {IF /\ childInstance # NoInst /\ childKey # NoKey
                             /\ S.heap[childInstance].key = childKey
                             /\ currentDom # NoDom /\ parentNode(S, currentDom) = d
                          THEN MoveKeyed(S, d, currentDom, anchor, i) ELSE S} })

\* a mutant of RemoveUnused: the unused children keep their nodes
RECURSIVE RemoveUnusedKeepingNodes(_, _, _, _)
RemoveUnusedKeepingNodes(S, parent, prevChildren, used) ==
  IF prevChildren = <<>> THEN S
  ELSE LET c == Head(prevChildren)
           S1 == IF c # NoInst /\ c \notin used THEN Gone(S, c, "unlisted") ELSE S
       IN RemoveUnusedKeepingNodes(S1, parent, Tail(prevChildren), used)

\* removal of the previous children no next child used (lines 648-722 / 885-903)
RECURSIVE RemoveUnused(_, _, _, _)
RemoveUnused(S, parent, prevChildren, used) ==
  IF prevChildren = <<>> THEN S
  ELSE LET c == Head(prevChildren)
           S1 == IF c # NoInst /\ c \notin used
                 THEN Gone(RemoveNodes(S, parent, getDomNodes(S, c)), c, "unlisted") ELSE S
       IN RemoveUnused(S1, parent, Tail(prevChildren), used)

\* for (const unusedChild of keyedMap.values()) remove its nodes
RECURSIVE RemoveLeftInMap(_, _, _, _)
RemoveLeftInMap(S, parent, keyOrder, keyedMap) ==
  IF keyOrder = <<>> THEN S
  ELSE LET k == Head(keyOrder)
           S1 == IF MapHas(keyedMap, k)
                 THEN RemoveNodes(S, parent, getDomNodes(S, keyedMap[k])) ELSE S
       IN RemoveLeftInMap(S1, parent, Tail(keyOrder), keyedMap)

updateHost(S, parentDom, inst, node, path) ==
  LET d == S.heap[inst].dom
      prevChildren == S.heap[inst].children
      nextChildren == node.props.children
  IN The({ The({ The({ IF f.s.err THEN [s |-> f.s, r |-> NoInst]
                       ELSE
                       [s |-> [RemoveLeftInMap(RemoveUnused(f.s, d, prevChildren, m.used), d,
                                               KeyOrder(S1, prevChildren, <<>>), f.keyedMap)
                                 EXCEPT !.heap[inst].node = node,
                                        !.heap[inst].children = f.r,
                                        !.heap[inst].path = path],
                        r |-> inst]
                       : f \in {hostForward(S1, d, path, nextChildren, m.insts,
                                            hostAnchors(S1, d, prevChildren, nextChildren,
                                                        m.insts, 1),
                                            KeyedMap(S1, prevChildren), 1, <<>>)} })
                 : m \in {hostMatch(S1, prevChildren, nextChildren, path,
                                    KeyedMap(S1, prevChildren), 1,
                                    [insts |-> <<>>, used |-> {}])} })
           : S1 \in {updateDomProps(S, d, S.heap[inst].node.props, node.props)} })

----------------------------------------------------------------------------
(* Fragments *)

\* the reverse loop of mountFragment (lines 747-758): children i..1, [s, r = instances]
mountFragmentChildren(S, parentDom, childNodes, path, i, currentAnchor, acc) ==
  IF i < 1 THEN [s |-> S, r |-> acc]
  ELSE LET childNode == childNodes[i]
           childPath == createChildPath(path, childNode.key, i - 1, childNode.type)
       IN The({ IF r.s.err THEN [s |-> r.s, r |-> acc]
                ELSE mountFragmentChildren(r.s, parentDom, childNodes, path, i - 1,
                                           OrElse(getFirstDom(r.s, r.r), currentAnchor),
                                           <<r.r>> \o acc)
                : r \in {reconcile(S, parentDom, NoInst, childNode, childPath, currentAnchor)} })

mountFragment(S, parentDom, node, path, anchor, via) ==
  The({ IF cs.s.err THEN [s |-> cs.s, r |-> NoInst]
        ELSE
        [s |-> SetFirstDom(NewInst(cs.s, Inst(FRAGMENT, NoDom, node, cs.r, path, cs.s, via)),
                           NextInst(cs.s)),
         r |-> NextInst(cs.s)]
        : cs \in {mountFragmentChildren(S, parentDom, node.props.children, path,
                                        Len(node.props.children), anchor, <<>>)} })

\* the forward loop of updateFragment (lines 863-883)
fragmentForward(S, parentDom, path, nextChildren, childInstances, anchors, keyedMap, i, newChildren) ==
  IF i > Len(nextChildren) THEN [s |-> S, r |-> newChildren, keyedMap |-> keyedMap]
  ELSE LET childNode == nextChildren[i]
           childKey == childNode.key
           childPath == createChildPath(path, childKey, i - 1, childNode.type)
           childInstance == childInstances[i]
           km == IF childInstance # NoInst /\ childKey # NoKey
                 THEN MapDel(keyedMap, childKey) ELSE keyedMap
       IN The({ IF r.s.err THEN [s |-> r.s, r |-> newChildren, keyedMap |-> km]
                ELSE
                fragmentForward(SetPath(r.s, r.r, childPath), parentDom, path, nextChildren,
                                childInstances, anchors, km, i + 1, Append(newChildren, r.r))
                : r \in {reconcile(S, parentDom, childInstance, childNode, childPath,
                                   anchors[i])} })

updateFragment(S, parentDom, inst, node, path) ==
  LET prevChildren == S.heap[inst].children
      nextChildren == node.props.children
  IN The({ The({ IF f.s.err THEN [s |-> f.s, r |-> NoInst]
                 ELSE
                 [s |-> [SetFirstDom(
                            [RemoveLeftInMap(RemoveUnused(f.s, parentDom, prevChildren, m.used),
                                             parentDom, KeyOrder(S, prevChildren, <<>>),
                                             f.keyedMap)
                               EXCEPT !.heap[inst].node = node,
                                      !.heap[inst].children = f.r], inst)
                           EXCEPT !.heap[inst].path = path],
                  r |-> inst]
                 : f \in {fragmentForward(S, parentDom, path, nextChildren, m.insts,
                                          fragmentAnchors(S, parentDom, prevChildren,
                                                          nextChildren, m.insts, 1),
                                          KeyedMap(S, prevChildren), 1, <<>>)} })
           : m \in {fragmentMatch(S, prevChildren, nextChildren, path,
                                  KeyedMap(S, prevChildren), 1,
                                  [insts |-> <<>>, used |-> {}])} })

----------------------------------------------------------------------------
(* reconcile *)

\* branch 1 for a Fragment: each child's nodes are removed from parentDom
RECURSIVE RemoveFragmentChildren(_, _, _)
RemoveFragmentChildren(S, parentDom, children) ==
  IF children = <<>> THEN S
  ELSE LET c == Head(children)
           S1 == IF c # NoInst THEN RemoveNodes(S, parentDom, getDomNodes(S, c)) ELSE S
       IN RemoveFragmentChildren(S1, parentDom, Tail(children))

\* mount by kind (branches 2 and 3)
Mount(S, parentDom, node, path, anchor, via) ==
  IF node.type = TEXT_ELEMENT THEN mountText(S, parentDom, node, anchor, via)
  ELSE IF node.type = Fragment THEN mountFragment(S, parentDom, node, path, anchor, via)
  ELSE IF IsComponent(node.type) THEN mountComponent(S, parentDom, node, path, anchor, via)
  ELSE mountHost(S, parentDom, node, path, anchor, via)

\* a mutant of Mismatch: the key is not compared
MismatchByType(S, inst, node) == S.heap[inst].node.type # node.type

\* the test of reconcile's branch 3: type or key differ
Mismatch(S, inst, node) ==
  S.heap[inst].node.type # node.type \/ S.heap[inst].key # node.key

reconcile(S, parentDom, inst, node, path, anchor) ==
  IF IsNull(node) THEN
    [s |-> Gone(IF inst = NoInst THEN S
                ELSE IF S.heap[inst].kind = FRAGMENT
                     THEN RemoveFragmentChildren(S, parentDom, S.heap[inst].children)
                     ELSE removeInstance(S, parentDom, inst),
                inst, "null"),
     r |-> NoInst]
  ELSE IF inst = NoInst THEN Mount(S, parentDom, node, path, anchor, "mount")
  ELSE IF Mismatch(S, inst, node) THEN
    Mount(Gone(removeInstance(S, parentDom, inst), inst, "remount"),
          parentDom, node, path, anchor, "remount")
  ELSE
    The({ IF u.s.err THEN [s |-> u.s, r |-> NoInst]
          ELSE
          [s |-> [(IF u.s.heap[u.r].path # path /\ u.s.heap[u.r].kind = COMPONENT
                   THEN MigratePath(u.s, u.s.heap[u.r].path, path) ELSE u.s)
                    EXCEPT !.heap[u.r].path = path],
           r |-> u.r]
          : u \in {IF node.type = TEXT_ELEMENT THEN updateText(S, inst, node)
                   ELSE IF node.type = Fragment
                        THEN updateFragment(S, parentDom, inst, node, path)
                   ELSE IF IsComponent(node.type)
                        THEN updateComponent(S, parentDom, inst, node, path)
                   ELSE updateHost(S, parentDom, inst, node, path)} })

----------------------------------------------------------------------------
(* core/hooks.ts: cleanupUnusedHooks and the setter of useState *)

\* the stored cleanups of one slot sequence are invoked, in slot order
RECURSIVE RunCleanups(_, _)
RunCleanups(S, hs) ==
  IF hs = <<>> THEN S
  ELSE LET h == Head(hs)
           S1 == IF h.kind = "effect" /\ h.cleanup # NoFn
                 THEN [S EXCEPT !.fxlog = Append(@, [ev |-> "cleanup", id |-> h.cleanup,
                                                     owner |-> h.effect.owner, by |-> "gc"])]
                 ELSE S
       IN RunCleanups(S1, Tail(hs))

\* a mutant of CleanupPaths: the cleanups of a stale path are invoked, its
\* slots and cursor stay
RECURSIVE CleanupPathsKeepingSlots(_, _)
CleanupPathsKeepingSlots(S, paths) ==
  IF paths = <<>> THEN S
  ELSE LET path == Head(paths)
           S1 == IF path \notin S.hooks.visited
                 THEN RunCleanups(S, S.hooks.state[path])
                 ELSE S
       IN CleanupPathsKeepingSlots(S1, Tail(paths))

\* the loop of cleanupUnusedHooks over the paths of the store
RECURSIVE CleanupPaths(_, _)
CleanupPaths(S, paths) ==
  IF paths = <<>> THEN S
  ELSE LET path == Head(paths)
           S1 == IF path \notin S.hooks.visited
                 THEN LET C == RunCleanups(S, S.hooks.state[path])
                      IN [C EXCEPT !.hooks = [StateDel(@, path) EXCEPT !.cursor = MapDel(@, path)]]
                 ELSE S
       IN CleanupPaths(S1, Tail(paths))

\* a mutant of cleanupUnusedHooks: stale paths are deleted, their cleanups not invoked
cleanupUnusedHooksSilently(S) ==
  LET stale == {p \in DOMAIN S.hooks.state : p \notin S.hooks.visited}
  IN [S EXCEPT !.hooks = [state |-> [p \in DOMAIN S.hooks.state \ stale |-> S.hooks.state[p]],
                          order |-> SelectSeq(S.hooks.order, LAMBDA p : p \notin stale),
                          cursor |-> [p \in DOMAIN S.hooks.cursor \ stale |-> S.hooks.cursor[p]],
                          visited |-> {},
                          componentStack |-> S.hooks.componentStack]]

\* a mutant of cleanupUnusedHooks: the set of visited paths is not cleared
cleanupUnusedHooksKeepingVisited(S) == CleanupPaths(S, S.hooks.order)

cleanupUnusedHooks(S) ==
  LET C == CleanupPaths(S, S.hooks.order)
  IN [C EXCEPT !.hooks.visited = {}]

----------------------------------------------------------------------------
(* core/render.ts *)

RootNode == CompNode("App", NoKey, NoDeps, FALSE)

Pack ==
  [prog |-> prog, dom |-> dom, heap |-> heap, hooks |-> hooks, queue |-> queue,
   ops |-> <<>>, fxlog |-> fxlog, nextFx |-> nextFx, err |-> FALSE, pass |-> passes + 1,
   tasks |-> tasks, scheduled |-> scheduled]

\* render(), lines 17-23: the contexts are reset and the root is reconciled
renderRoot(S) ==
  reconcile([S EXCEPT !.hooks.cursor = EmptyMap,
                      !.hooks.componentStack = <<>>,
                      !.queue = <<>>],
            Container, root, RootNode, "0", NoDom)

\* render(): the state after the pass and the new root instance; an error
\* raised by reconcile leaves render() before root.instance is assigned and
\* before cleanupUnusedHooks()
render(S) ==
  The({ IF r.s.err THEN [s |-> r.s, r |-> root]
        ELSE [s |-> cleanupUnusedHooks(r.s), r |-> r.r] : r \in {renderRoot(S)} })

\* a mutant of FlushEntry: the effect body runs before the previous cleanup
FlushEntryBodyFirst(S, e) ==
  IF ~MapHas(S.hooks.state, e.path) THEN S
  ELSE LET hs == S.hooks.state[e.path] IN
       IF ~(e.cursor + 1 \in 1..Len(hs) /\ hs[e.cursor + 1].kind = "effect") THEN S
       ELSE LET hook == hs[e.cursor + 1]
                S1 == [S EXCEPT !.fxlog = Append(@, [ev |-> "effect", id |-> hook.effect.id,
                                                     owner |-> hook.effect.owner, by |-> "flush"])]
                S2 == IF hook.cleanup # NoFn
                      THEN [S1 EXCEPT !.fxlog = Append(@, [ev |-> "cleanup", id |-> hook.cleanup,
                                                           owner |-> hook.effect.owner, by |-> "flush"])]
                      ELSE S1
                cleanup == IF hook.effect.ret THEN hook.effect.id ELSE NoFn
            IN [S2 EXCEPT !.hooks.state[e.path][e.cursor + 1].cleanup = cleanup]

\* hook.effect() raises an error: the component function of its owner passes
\* useEffect a throwing body
Throws(S, effect) == S.heap[effect.owner].node.type = "Thrower"

\* hook.effect() calls the setter of the first state slot, which useState
\* bound to the path of the render that queued the effect
Syncs(S, effect) == S.heap[effect.owner].node.type = "Syncer"

\* the body of the effect of entry e: Syncer's calls setState(SyncValue)
EffectBody(S, e, effect) ==
  IF ~Syncs(S, effect) THEN S
  ELSE The({ IF r.request THEN enqueueRender([S EXCEPT !.hooks = r.hooks])
             ELSE [S EXCEPT !.hooks = r.hooks]
             : r \in {setState(S.hooks, e.path, 0, Value(SyncValue))} })

\* one entry of flushEffects; an error raised by the body leaves the entry
\* before hook.cleanup is assigned
FlushEntry(S, e) ==
  IF ~MapHas(S.hooks.state, e.path) THEN S
  ELSE LET hs == S.hooks.state[e.path] IN
       IF ~(e.cursor + 1 \in 1..Len(hs) /\ hs[e.cursor + 1].kind = "effect") THEN S
       ELSE LET hook == hs[e.cursor + 1]
                S1 == IF hook.cleanup # NoFn
                      THEN [S EXCEPT !.fxlog = Append(@, [ev |-> "cleanup", id |-> hook.cleanup,
                                                          owner |-> hook.effect.owner, by |-> "flush"])]
                      ELSE S
                S2 == [S1 EXCEPT !.fxlog = Append(@, [ev |-> "effect", id |-> hook.effect.id,
                                                      owner |-> hook.effect.owner, by |-> "flush"])]
                cleanup == IF hook.effect.ret THEN hook.effect.id ELSE NoFn
            IN IF Throws(S, hook.effect) THEN [S2 EXCEPT !.err = TRUE]
               ELSE [EffectBody(S2, e, hook.effect)
                       EXCEPT !.hooks.state[e.path][e.cursor + 1].cleanup = cleanup]

\* flushEffects: the queue is drained from its head; the loop has no handler,
\* so an error raised by an entry ends it
RECURSIVE flushEffects(_)
flushEffects(S) ==
  IF S.queue = <<>> \/ S.err THEN S
  ELSE flushEffects(FlushEntry([S EXCEPT !.queue = Tail(@)], Head(S.queue)))

----------------------------------------------------------------------------
(* The trees App is asked to return *)

KeyName(k) == <<"a", "b", "c", "d", "e">>[k]

\* the orders (injective sequences) of n of the keys 1..NumKeys
Orders(n) == {p \in [1..n -> 1..NumKeys] : \A i, j \in 1..n : i # j => p[i] # p[j]}

\* <ul> with keyed <li> children
ListNode(p) ==
  HostNode("ul", NoKey, 0, [i \in 1..Len(p) |-> HostNode("li", KeyName(p[i]), p[i], <<>>)])

\* <div> or fragment with keyed Counter children
ItemsNode(parent, p) ==
  VNode(parent, NoKey,
        Props(0, NoDeps, FALSE,
              [i \in 1..Len(p) |-> CompNode("Counter", KeyName(p[i]), Deps(<<0>>), TRUE)]))

\* as ItemsNode(<<1, ..>>), the first child being an Other with the same key
SwappedNode(parent, p) ==
  VNode(parent, NoKey,
        Props(0, NoDeps, FALSE,
              [i \in 1..Len(p) |-> CompNode(IF i = 1 THEN "Other" ELSE "Counter",
                                            KeyName(p[i]), Deps(<<0>>), TRUE)]))

ListScenes == {ListNode(p) : p \in Orders(NumKeys)}

InOrder == [i \in 1..NumKeys |-> i]

\* the keys in order, without key k
Dropped(k) == SelectSeq(InOrder, LAMBDA x : x # k)

ItemScenes(parent) ==
  {ItemsNode(parent, p) : p \in Orders(NumKeys) \cup {Dropped(2)}}
    \cup {SwappedNode(parent, InOrder)}

DepsChoices == {NoDeps, Deps(<<>>), Deps(<<0>>), Deps(<<1>>), Deps(<<0, 0>>)}

SingleScenes ==
  {CompNode("Counter", NoKey, d, TRUE) : d \in DepsChoices}
    \cup {CompNode("Counter", NoKey, Deps(<<1>>), FALSE),
          CompNode("Other", NoKey, Deps(<<0>>), TRUE), NullNode, TextNode(1),
          HostNode("p", NoKey, 0, <<TextNode(1)>>)}

Families == {ListScenes, ItemScenes("div"), ItemScenes(Fragment), SingleScenes}

Scenes == UNION Families

\* <ul> or fragment whose <li> children carry the keys ks, which may repeat
DupNode(parent, ks) ==
  VNode(parent, NoKey,
        Props(0, NoDeps, FALSE,
              [i \in 1..Len(ks) |-> HostNode("li", KeyName(ks[i]), i, <<>>)]))

DupOrders == {<<1, 1, 2>>, <<1, 2>>, <<2, 1>>, <<1, 2, 1>>, <<1, 1>>, <<2, 1, 1>>}

DupScenes(parent) == {DupNode(parent, ks) : ks \in DupOrders}

\* <div> whose children carry no key: <p> elements and components
ShiftNode(ts) ==
  HostNode("div", NoKey, 0,
           [i \in 1..Len(ts) |-> IF ts[i] = "p" THEN HostNode("p", NoKey, 0, <<>>)
                                 ELSE CompNode(ts[i], NoKey, Deps(<<0>>), TRUE)])

ShiftOrders == {<<"Counter", "p">>, <<"p", "Counter">>, <<"Counter">>, <<"Counter", "Counter">>,
                <<"p", "Counter", "Counter">>, <<"p", "p", "Counter">>}

ShiftScenes == {ShiftNode(ts) : ts \in ShiftOrders}

\* for the third child of the second tree the first, second and fourth child
\* of the first tree are candidates: the first is the one with the lowest
\* index, the second and the fourth are the nearest ones
TieScenes == {ShiftNode(<<"Counter", "Counter", "p", "Counter">>),
              ShiftNode(<<"p", "p", "Counter", "p">>)}

\* a Counter (a component that calls hooks) and a Toggle (one that calls
\* none) as the single child of App, at the same path
HooklessScenes ==
  {CompNode("Counter", NoKey, NoDeps, FALSE)}
    \cup {VNode("Toggle", NoKey, Props(v, Deps(<<0>>), FALSE, <<>>)) : v \in {0, 1}}

\* the same unkeyed children under a fragment
FragmentShiftScenes ==
  {FragNode(NoKey, ShiftNode(ts).props.children) : ts \in ShiftOrders}

\* <div> whose first child, a Toggle or a fragment of <span>s, is followed by a <p>
GrowNode(first) == HostNode("div", NoKey, 0, <<first, HostNode("p", NoKey, 0, <<>>)>>)

GrowScenes ==
  {GrowNode(VNode("Toggle", NoKey, Props(v, NoDeps, FALSE, <<>>))) : v \in 0..2}
    \cup {GrowNode(FragNode(NoKey, [i \in 1..n |-> HostNode("span", NoKey, i, <<>>)]))
             : n \in 1..2}

\* a <div> with a Thrower among Counters
ThrowOrders == {<<"Thrower", "Counter">>, <<"Counter", "Thrower">>, <<"Thrower">>,
                <<"Thrower", "Counter", "Counter">>}

ThrowScenes == {ShiftNode(ts) : ts \in ThrowOrders}

\* a Syncer alone, with the dependency lists of SingleScenes, or before a
\* Counter; a Deriver alone
SyncScenes ==
  {CompNode(t, NoKey, d, TRUE) : t \in {"Syncer", "Deriver"},
                                 d \in {NoDeps, Deps(<<0>>), Deps(<<1>>)}}
    \cup {ShiftNode(<<"Syncer", "Counter">>)}

\* <div> or fragment with keyed components whose keys may repeat: items are
\* <<type, key>> pairs
MixNode(parent, items) ==
  VNode(parent, NoKey,
        Props(0, NoDeps, FALSE,
              [i \in 1..Len(items) |->
                 CompNode(items[i][1], KeyName(items[i][2]), Deps(<<0>>), TRUE)]))

MixOrders == {<<<<"Counter", 1>>, <<"Counter", 2>>>>,
              <<<<"Other", 1>>, <<"Counter", 1>>, <<"Counter", 2>>>>,
              <<<<"Counter", 1>>, <<"Counter", 1>>>>,
              <<<<"Counter", 2>>, <<"Other", 2>>>>,
              <<<<"Counter", 1>>, <<"Counter", 3>>>>}

MixScenes(parent) == {MixNode(parent, items) : items \in MixOrders}

\* a single keyed component: the key or the type changes between passes
KeyedSingles ==
  {CompNode("Counter", KeyName(1), Deps(<<0>>), TRUE),
   CompNode("Counter", KeyName(2), Deps(<<0>>), TRUE),
   CompNode("Other", KeyName(1), Deps(<<0>>), TRUE),
   CompNode("Counter", KeyName(1), Deps(<<1>>), TRUE)}

\* <Memo v={v} list={..}/> or <DeepMemo ../>, the list given or not; also
\* <Toggle v={v}/>
MemoNode(type, v, deps) == VNode(type, NoKey, Props(v, deps, FALSE, <<>>))

MemoScenes ==
  {MemoNode(t, v, d) : t \in MemoTypes, v \in {0, 1}, d \in {NoDeps, Deps(<<0>>)}}

\* a Toggle alone, returning each of its values
ToggleScenes == {MemoNode("Toggle", v, NoDeps) : v \in {0, 1, 3, 4, 5, 6, 7}}

\* the applications that break a rule of the library or sit at its edges
EdgeFamilies ==
  {DupScenes("ul"), DupScenes(Fragment), ShiftScenes, ThrowScenes, SyncScenes,
   MixScenes("div"), MixScenes(Fragment), KeyedSingles, MemoScenes,
   FragmentShiftScenes, GrowScenes, ToggleScenes, TieScenes, HooklessScenes,
   {CompNode("Memoizer", NoKey, d, FALSE) : d \in {NoDeps, Deps(<<0>>)}},
   {CompNode("Caller", NoKey, d, FALSE) : d \in {NoDeps, Deps(<<0>>)}}}

EdgePrograms ==
  {DupNode("ul", <<1, 1, 2>>), DupNode(Fragment, <<1, 1, 2>>), ShiftNode(<<"Counter", "p">>),
   ShiftNode(<<"Thrower", "Counter">>), ShiftNode(<<"p", "Counter", "Counter">>),
   CompNode("Syncer", NoKey, Deps(<<0>>), TRUE), CompNode("Deriver", NoKey, Deps(<<0>>), TRUE),
   MixNode("div", <<<<"Counter", 1>>, <<"Counter", 2>>>>),
   MixNode(Fragment, <<<<"Counter", 1>>, <<"Counter", 2>>>>),
   CompNode("Counter", KeyName(1), Deps(<<0>>), TRUE),
   MemoNode("Memo", 0, NoDeps), MemoNode("DeepMemo", 0, Deps(<<0>>)),
   MemoNode("MemoCounter", 0, NoDeps),
   FragNode(NoKey, ShiftNode(<<"Counter", "p">>).props.children),
   GrowNode(VNode("Toggle", NoKey, Props(0, NoDeps, FALSE, <<>>))),
   GrowNode(VNode("Toggle", NoKey, Props(1, NoDeps, FALSE, <<>>))),
   GrowNode(FragNode(NoKey, <<HostNode("span", NoKey, 1, <<>>)>>)),
   MemoNode("Toggle", 0, NoDeps), MemoNode("Toggle", 3, NoDeps), MemoNode("Toggle", 4, NoDeps),
   MemoNode("Toggle", 7, NoDeps),
   CompNode("Memoizer", NoKey, NoDeps, FALSE), CompNode("Caller", NoKey, NoDeps, FALSE),
   ShiftNode(<<"Counter", "Counter", "p", "Counter">>),
   CompNode("Counter", NoKey, NoDeps, FALSE)}

\* the trees the handlers of one application switch between
FamilyOf(tree) == CHOOSE f \in Families \cup EdgeFamilies : tree \in f

\* the tree each application starts with
Programs ==
  {ListNode(InOrder), ItemsNode("div", InOrder), ItemsNode(Fragment, InOrder),
   CompNode("Counter", NoKey, Deps(<<0>>), TRUE)}

----------------------------------------------------------------------------
(* The state machine *)

RECURSIVE Reach(_, _)
RECURSIVE ReachAll(_, _)
\* the instances of the tree under i
Reach(h, i) == IF i = NoInst THEN {} ELSE {i} \cup ReachAll(h, h[i].children)
ReachAll(h, cs) == IF cs = <<>> THEN {} ELSE Reach(h, Head(cs)) \cup ReachAll(h, Tail(cs))

Alive == Reach(heap, root)
AliveComponents == {i \in Alive : heap[i].kind = COMPONENT}

\* last = [act, and for a setter call: path and cursor of the setter, prev the
\* value stored before the call, next the value the call computed (each as
\* <<kind of the slot, value>>: a number, a flag or a node tree), n the
\* number of consecutive c => c + 1 calls of this setter since the last
\* render, base the value stored before the first of them, req whether the
\* call reached enqueueRender()]
NoLast == [act |-> "init", path |-> "", cursor |-> 0,
           prev |-> <<"number", 0>>, next |-> <<"number", 0>>,
           n |-> 0, base |-> 0, req |-> FALSE]

\* the state setup() leaves: an empty container, an empty hook store, the
\* first render requested
Booted ==
  /\ dom = [kids |-> (Container :> <<>>), par |-> (Container :> NoDom),
            tag |-> (Container :> "root"), val |-> (Container :> 0), next |-> Container + 1]
  /\ heap = <<>>
  /\ root = NoInst
  /\ hooks = [state |-> EmptyMap, order |-> <<>>, cursor |-> EmptyMap, visited |-> {},
              componentStack |-> <<>>]
  /\ queue = <<>>
  /\ tasks = <<"render">>
  /\ scheduled = TRUE
  /\ passes = 0
  /\ ops = <<>>
  /\ fxlog = <<>>
  /\ nextFx = 1
  /\ threw = FALSE
  /\ last = NoLast

Init == prog \in Programs /\ Booted

InitEdge == prog \in EdgePrograms /\ Booted

\* the render job: the flag of withEnqueue is cleared and render() runs, then
\* flushEffects is enqueued.  An error of
\* the render target leaves render() before the root is stored and the flush
\* is enqueued: the step is marked "crash" and the application is followed no
\* further
RunRender ==
  /\ tasks # <<>> /\ Head(tasks) = "render"
  /\ \E R \in {render([Pack EXCEPT !.tasks = Tail(tasks), !.scheduled = FALSE])} :
       /\ dom' = R.s.dom
       /\ heap' = R.s.heap
       /\ root' = R.r
       /\ hooks' = R.s.hooks
       /\ queue' = R.s.queue
       /\ ops' = R.s.ops
       /\ fxlog' = R.s.fxlog
       /\ nextFx' = R.s.nextFx
       /\ threw' = (threw \/ R.s.err)
       /\ tasks' = IF R.s.err THEN R.s.tasks ELSE Append(R.s.tasks, "flush")
       /\ scheduled' = R.s.scheduled
       /\ last' = [NoLast EXCEPT !.act = IF R.s.err THEN "crash" ELSE "render"]
  /\ passes' = passes + 1
  /\ UNCHANGED prog

\* the flush job: flushEffects()
RunFlush ==
  /\ tasks # <<>> /\ Head(tasks) = "flush"
  /\ \E F \in {flushEffects([Pack EXCEPT !.tasks = Tail(tasks)])} :
       /\ dom' = F.dom
       /\ heap' = F.heap
       /\ hooks' = F.hooks
       /\ queue' = F.queue
       /\ fxlog' = F.fxlog
       /\ threw' = (threw \/ F.err)
       /\ tasks' = F.tasks
       /\ scheduled' = F.scheduled
       /\ passes' = F.pass - 1
  /\ last' = [NoLast EXCEPT !.act = "flush"]
  /\ UNCHANGED <<prog, root, ops, nextFx>>

\* the calls an event handler can make on the setter of instance i, slot cursor:
\* App shows any tree of its family when it shows its first tree, and goes
\* back to its first tree from any other
SetterArgs(i, cursor) ==
  IF heap[i].node.type = "App"
  THEN IF cursor = 1 THEN {Updater("flip")}
       ELSE IF StoredValue(hooks.state[heap[i].path], 0) = prog
            THEN {Value(t) : t \in FamilyOf(prog)}
            ELSE {Value(prog)}
  ELSE {Updater("inc") :
          x \in {c \in {0} : \/ ~MapHas(hooks.state, heap[i].path)
                             \/ StoredValue(hooks.state[heap[i].path], cursor) < MaxVal}}

\* the state slots of instance i that have a setter: the slot of InnerCounter
\* follows the ref of the memo wrapper, once the wrapped function was invoked
StateSlotsOf(i) ==
  IF heap[i].node.type = "App" THEN {0, 1}
  ELSE IF heap[i].node.type = "MemoCounter"
  THEN {c \in {1} : /\ MapHas(hooks.state, heap[i].path)
                    /\ Len(hooks.state[heap[i].path]) >= 2}
  ELSE {0}

\* the components whose setters the handlers of the page call: App, the
\* single component, and the keyed components of the first two keys
Clickable ==
  {i \in AliveComponents : /\ heap[i].key \in {NoKey, KeyName(1), KeyName(2)}
                           /\ heap[i].node.type \notin {"Memo", "DeepMemo", "Toggle"}}

\* the components of the page of keyed components in a <div> that were
\* unmounted and whose path the garbage collection has emptied: a handler of
\* that page kept their setters
Unmounted ==
  {i \in DOMAIN heap \ Alive :
     /\ prog \in MixScenes("div")
     /\ heap[i].kind = COMPONENT /\ heap[i].node.type = "Counter"
     /\ heap[i].key \in {KeyName(1), KeyName(2)}
     /\ ~MapHas(hooks.state, heap[i].path)}

\* the tree has fewer children than the tree App starts with
Shrinks(tree) == IsNull(tree) \/ Len(tree.props.children) < Len(prog.props.children)

\* the paths the setters of instance i were created with: the setter of the
\* last render holds the current path, the setter of the first render the
\* path of the mount
SetterPaths(i) == {heap[i].path, heap[i].mountPath}

\* An event handler calls a setter a component got in its last render or,
\* kept since then, in its first render.  Handlers run between the jobs of
\* the microtask queue, never before a pending flush; one handler may call an
\* updater several times before the render it requested runs, and may then
\* make App drop children or, after the setter of an unmounted component,
\* show another tree.
SetState(i, cursor, arg) ==
  /\ passes < MaxPasses
  /\ last.act # "crash"
  /\ \/ tasks = <<>>
     \/ /\ tasks = <<"render">> /\ last.act = "setState"
        /\ \/ last.path = heap[i].path /\ last.cursor = cursor /\ arg.fn = "inc"
           \/ /\ last.n >= 1 /\ heap[i].node.type = "App" /\ cursor = 0
              /\ (Shrinks(arg.v) \/ \A c \in AliveComponents : heap[c].path # last.path)
  /\ \E path \in SetterPaths(i) :
     \E r \in {setState(hooks, path, cursor, arg)} :
     \E prev \in {StoredValue(IF MapHas(hooks.state, path) THEN hooks.state[path] ELSE <<>>,
                               cursor)} :
     \E chain \in {/\ last.act = "setState" /\ last.path = path
                   /\ last.cursor = cursor /\ last.n > 0} :
     \E kind \in {IF heap[i].node.type # "App" THEN "number"
                  ELSE IF cursor = 0 THEN "tree" ELSE "flag"} :
        /\ hooks' = r.hooks
        /\ \E q \in {IF r.request THEN enqueueRender(Pack) ELSE Pack} :
             /\ tasks' = q.tasks
             /\ scheduled' = q.scheduled
        /\ last' = [act |-> "setState", path |-> path, cursor |-> cursor,
                    prev |-> <<kind, prev>>, next |-> <<kind, ApplyArg(arg, prev)>>,
                    n |-> IF arg.fn # "inc" THEN 0 ELSE IF chain THEN last.n + 1 ELSE 1,
                    base |-> IF arg.fn # "inc" THEN 0 ELSE IF chain THEN last.base ELSE prev,
                    req |-> r.request]
  /\ UNCHANGED <<prog, dom, heap, root, queue, passes, ops, fxlog, nextFx, threw>>

Next ==
  \/ RunRender
  \/ RunFlush
  \/ \E i \in Clickable \cup Unmounted : \E cursor \in StateSlotsOf(i) :
       \E arg \in SetterArgs(i, cursor) : SetState(i, cursor, arg)

Spec == Init /\ [][Next]_vars

SpecEdge == InitEdge /\ [][Next]_vars

\* the applications of one component whose setter is called by a handler
\* (Counter), by its effect (Syncer) or by its body (Deriver); the microtask
\* queue runs every job it holds
InitFair ==
  /\ prog \in {CompNode(t, NoKey, Deps(<<0>>), TRUE) : t \in {"Counter", "Syncer", "Deriver"}}
  /\ Booted

SpecFair == InitFair /\ [][Next]_vars /\ WF_vars(RunRender \/ RunFlush)

\* No code of the library calls insertInstance; an application that imports
\* core/dom.ts can.  Its handler moves the nodes of a mounted instance within
\* their parent, before one of the children or to the end, once after a flush.
\* A first node that is in no parent gives a null parentDom: the call raises
\* a TypeError and the render target is left as it was
InsertInstance(i, anchor) ==
  /\ tasks = <<>> /\ last.act = "flush"
  /\ \E R \in {insertInstance(Pack, parentNode(Pack, getFirstDom(Pack, i)), i, anchor)} :
       /\ dom' = R.dom
       /\ ops' = R.ops
       /\ threw' = (threw \/ R.err)
  /\ last' = [NoLast EXCEPT !.act = "insert"]
  /\ UNCHANGED <<prog, heap, root, hooks, queue, tasks, scheduled, passes, fxlog, nextFx>>

NextDom ==
  \/ Next
  \/ \E i \in {j \in Alive : getFirstDom(Pack, j) # NoDom} :
       \E anchor \in {NoDom} \cup {d \in DOMAIN dom.par :
                                     dom.par[d] = parentNode(Pack, getFirstDom(Pack, i))} :
         InsertInstance(i, anchor)

SpecDom == Init /\ [][NextDom]_vars

NoThrow == ~threw

----------------------------------------------------------------------------
(* Observations used by the properties *)

\* the step is a render pass that ran to its end
IsRenderStep == passes' = passes + 1 /\ last'.act = "render"

AllKeyed(node) ==
  /\ \A i \in 1..Len(node.props.children) : node.props.children[i].key # NoKey
  /\ \A i, j \in 1..Len(node.props.children) :
       i # j => node.props.children[i].key # node.props.children[j].key

ChildSet(node) ==
  {<<node.props.children[i].key, node.props.children[i].type>> :
     i \in 1..Len(node.props.children)}

\* the same children, in some order
IsPermutation(prev, next) ==
  /\ Len(prev.props.children) = Len(next.props.children)
  /\ ChildSet(prev) = ChildSet(next)

\* the render-target nodes of the children of instance i, in child order
ChildDomOrder(h, i) == getDomNodesOfChildren([heap |-> h], h[i].children)


\* the initial state of a component function
InitialOf(type) ==
  IF type \in {"Counter", "Deriver", "MemoCounter", "Memoizer", "Caller"} THEN CounterInit
  ELSE OtherInit

\* the value the first useState call of component instance i returned in its
\* last render: Counter and Other put it in the v attribute of their element
RenderedValue(h, i) == h[h[i].children[1]].node.props.v

\* the values of the state slots of a slot sequence
StateValues(hs) ==
  LET ss == SelectSeq(hs, LAMBDA x : x.kind = "state") IN [k \in 1..Len(ss) |-> ss[k].value]

Counters == {i \in AliveComponents : heap[i].node.type \notin {"App", "Toggle"}}

----------------------------------------------------------------------------
(* Properties *)

\* C1: a component mounted by reconcile's type/key mismatch branch starts
\* from its own initial state: the value its first useState call returns in
\* the mounting pass is its initial value, whatever path it is mounted at.
C1_RemountIsFresh ==
  \A i \in Counters :
    (heap[i].via = "remount" /\ heap[i].born = passes)
      => RenderedValue(heap, i) = InitialOf(heap[i].node.type)

\* C2: when updateHost gets the same all-keyed children in another order,
\* the render-target children of the host end in the new child order.
C2_PermutedOrder ==
  [][\A i \in Alive \cap Alive' :
       (IsRenderStep /\ heap[i].kind = HOST /\ AllKeyed(heap[i].node)
          /\ IsPermutation(heap[i].node, heap'[i].node))
       => dom'.kids[heap'[i].dom] = ChildDomOrder(heap', i)]_vars

\* C3: when the keyed children of a host or fragment are given in another
\* order, every child component is still the same instance and its state
\* slots hold the values they held before the pass.
C3_StateSurvivesReorder ==
  [][\A i \in Alive \cap Alive' :
       (IsRenderStep /\ heap[i].kind \in {HOST, FRAGMENT} /\ AllKeyed(heap[i].node)
          /\ IsPermutation(heap[i].node, heap'[i].node))
       => \A k \in 1..Len(heap[i].children) :
            LET c == heap[i].children[k] IN
            heap[c].kind = COMPONENT
              => /\ c \in Alive'
                 /\ MapHas(hooks'.state, heap'[c].path)
                 /\ StateValues(hooks'.state[heap'[c].path])
                      = StateValues(hooks.state[heap[c].path])]_vars

\* C3 witness: after a pass, keyed components that were mounted in the first
\* pass stand in another order than they were mounted in, one of them with a
\* counter above its initial value.
C3_Witness ==
  /\ last.act = "render" /\ passes >= 2
  /\ \E i \in Alive :
       /\ heap[i].kind \in {HOST, FRAGMENT} /\ AllKeyed(heap[i].node)
       /\ Len(heap[i].children) = NumKeys
       /\ heap[i].node.props.children[1].key # KeyName(1)
       /\ \A k \in 1..NumKeys : heap[heap[i].children[k]].born = 1
       /\ \E k \in 1..NumKeys :
            LET c == heap[i].children[k] IN
            /\ heap[c].kind = COMPONENT
            /\ StateValues(hooks.state[heap[c].path]) = <<CounterInit + 1>>

----------------------------------------------------------------------------
(* Observations used by C4 .. C10 *)

\* the step is an effect flush / a setter call
IsFlushStep == tasks # <<>> /\ Head(tasks) = "flush" /\ tasks' = Tail(tasks)
IsSetterStep == last'.act = "setState" /\ passes' = passes /\ fxlog' = fxlog /\ heap' = heap

\* node n hangs under the container
RECURSIVE InContainer(_, _)
InContainer(d, n) ==
  IF n = Container THEN TRUE
  ELSE IF d.par[n] = NoDom THEN FALSE
  ELSE InContainer(d, d.par[n])

\* the render-target nodes created for the instances of the subtree under i
SubtreeDoms(h, i) == {h[j].dom : j \in {x \in Reach(h, i) : h[x].kind \in {HOST, TEXT}}}

\* the cleanups stored in the effect slots of the components under i
StoredCleanups(h, hk, i) ==
  UNION {{hk.state[h[c].path][k].cleanup :
            k \in {x \in 1..Len(hk.state[h[c].path]) :
                     /\ hk.state[h[c].path][x].kind = "effect"
                     /\ hk.state[h[c].path][x].cleanup # NoFn}} :
         c \in {x \in Reach(h, i) : h[x].kind = COMPONENT /\ MapHas(hk.state, h[x].path)}}

\* how often the cleanup with identity id has been invoked
CleanupCount(log, id) ==
  Cardinality({k \in 1..Len(log) : log[k].ev = "cleanup" /\ log[k].id = id})

\* the instance trees: every instance with the node it was last given
RECURSIVE TreeOf(_, _)
RECURSIVE TreesOf(_, _)
TreeOf(h, i) ==
  IF i = NoInst THEN <<>>
  ELSE <<h[i].kind, h[i].node, TreesOf(h, h[i].children)>>
TreesOf(h, cs) ==
  IF cs = <<>> THEN <<>> ELSE <<TreeOf(h, Head(cs))>> \o TreesOf(h, Tail(cs))

\* the two dependency lists differ in length or in some position (a missing
\* list differs from every list)
DepsDiffer(a, b) ==
  \/ ~a.has \/ ~b.has
  \/ Len(a.list) # Len(b.list)
  \/ \E k \in 1..Len(a.list) : a.list[k] # b.list[k]

\* the slot of the store at (path, cursor) holds an effect entry
HasEffectEntry(hk, path, cursor) ==
  /\ MapHas(hk.state, path)
  /\ cursor + 1 \in 1..Len(hk.state[path])
  /\ hk.state[path][cursor + 1].kind = "effect"

\* the entries of the effect queue for (path, cursor)
QueueEntries(q, path, cursor) ==
  {k \in 1..Len(q) : q[k].path = path /\ q[k].cursor = cursor}

\* the cursor of the useEffect call of Counter and Other
EffectCursor == 1

\* invocations of effect bodies / of cleanups by the flush, per owner
EffectRuns(c) ==
  Cardinality({k \in 1..Len(fxlog) : fxlog[k].ev = "effect" /\ fxlog[k].owner = c})
FlushCleanups(c) ==
  Cardinality({k \in 1..Len(fxlog) :
                 fxlog[k].ev = "cleanup" /\ fxlog[k].owner = c /\ fxlog[k].by = "flush"})

\* what the flush of queue q is to invoke, given the store hk before it
RECURSIVE ExpectedFlush(_, _)
ExpectedFlush(q, hk) ==
  IF q = <<>> THEN <<>>
  ELSE LET slot == hk.state[Head(q).path][Head(q).cursor + 1]
       IN (IF slot.cleanup # NoFn THEN <<[ev |-> "cleanup", id |-> slot.cleanup]>> ELSE <<>>)
            \o <<[ev |-> "effect", id |-> slot.effect.id]>>
            \o ExpectedFlush(Tail(q), hk)

\* the invocations logged after the first n, as [ev, id]
LogFrom(log, n) == [k \in 1..(Len(log) - n) |-> [ev |-> log[n + k].ev, id |-> log[n + k].id]]

----------------------------------------------------------------------------
(* Properties, continued *)

\* C4: when a render pass unmounts a mounted subtree (its next node is null,
\* or its parent no longer lists it), then after the pass and its garbage
\* collection none of the subtree's render-target nodes hangs under the
\* container and every cleanup stored under the subtree has been invoked
\* exactly once.
C4_UnmountComplete ==
  [][IsRenderStep =>
       \A i \in Alive :
         (i \notin Alive' /\ heap'[i].gone \in {"null", "unlisted"})
         => /\ \A n \in SubtreeDoms(heap, i) : ~InContainer(dom', n)
            /\ \A id \in StoredCleanups(heap, hooks, i) : CleanupCount(fxlog', id) = 1]_vars

\* C4 witness: a pass has just unmounted a component that had a stored
\* cleanup, and the garbage collection invoked a cleanup of its path.
C4_Witness ==
  /\ last.act = "render"
  /\ \E i \in 1..Len(heap) :
       /\ heap[i].kind = COMPONENT
       /\ heap[i].gone \in {"null", "unlisted"}
       /\ i \notin Alive
       /\ ~MapHas(hooks.state, heap[i].path)
       /\ fxlog # <<>>
       /\ fxlog[Len(fxlog)].by = "gc" /\ fxlog[Len(fxlog)].owner = i

\* C5: a render pass that applies the node tree the previous pass applied
\* performs no render-target mutation.
C5_Idempotent ==
  [][(IsRenderStep /\ root # NoInst /\ TreeOf(heap', root') = TreeOf(heap, root))
       => ops' = <<>>]_vars

\* C6: a setter call whose next value is the value stored in its slot leaves
\* the hook store unchanged and requests no render.
C6_SameValueIsNoOp ==
  [][(IsSetterStep /\ last'.next = last'.prev)
       => /\ hooks' = hooks
          /\ ~last'.req
          /\ tasks' = tasks /\ scheduled' = scheduled]_vars

\* C6 witness: a setter has just been called with the value its slot holds,
\* and no render is pending.
C6_Witness ==
  /\ last.act = "setState" /\ last.next = last.prev /\ ~last.req
  /\ tasks = <<>> /\ ~scheduled

\* C7: a setter call whose next value differs from the stored one writes it
\* into its slot and requests a render; n calls of c => c + 1 made before the
\* next pass leave the slot n above the value it held before the first call.
C7_DifferentValueCommits ==
  [][IsSetterStep =>
       LET stored == StoredValue(hooks'.state[last'.path], last'.cursor) IN
       /\ last'.next # last'.prev
            => /\ stored = last'.next[2]
               /\ last'.req
       /\ last'.n >= 1 => stored = last'.base + last'.n]_vars

\* C7 witness: two calls of c => c + 1 on one setter before the render they
\* requested has run.
C7_Witness ==
  /\ last.act = "setState" /\ last.n = 2 /\ last.req
  /\ tasks = <<"render">>
  /\ StoredValue(hooks.state[last.path], last.cursor) = last.base + 2

\* C8: in a render pass the useEffect call of a component puts one entry in
\* the effect queue when its slot held no effect entry, or no dependency
\* list is given, or the list differs from the stored one; it puts none when
\* the lists are equal position by position.
C8_EnqueueRule ==
  [][IsRenderStep =>
       \A c \in Counters' :
         LET path == heap'[c].path
             deps == heap'[c].node.props.deps
             shouldRun ==
               \/ ~HasEffectEntry(hooks, path, EffectCursor)
               \/ ~deps.has
               \/ DepsDiffer(hooks.state[path][EffectCursor + 1].deps, deps)
         IN Cardinality(QueueEntries(queue', path, EffectCursor))
              = IF shouldRun THEN 1 ELSE 0]_vars

\* C8 witness: a pass has just rendered a component whose dependency list
\* had changed in an earlier pass and is now what it was: nothing is queued.
C8_Witness ==
  /\ last.act = "render"
  /\ queue = <<>>
  /\ \E c \in Counters :
       /\ heap[c].fxChanges >= 1
       /\ heap[c].node.props.deps.has
       /\ HasEffectEntry(hooks, heap[c].path, EffectCursor)

\* C9: once the jobs of a pass are done, the effect body of a mounted
\* component whose dependency list has always been a one-element list [x]
\* has run once, plus once for every pass in which x changed, and the flush
\* has run a cleanup of it once for every such pass.
C9_EffectStability ==
  tasks = <<>> =>
    \A c \in Counters :
      heap[c].plain
        => /\ EffectRuns(c) = 1 + heap[c].fxChanges
           /\ FlushCleanups(c) = heap[c].fxChanges

\* C10: the flush invokes, for each queue entry in turn, the cleanup stored
\* in the entry's slot (if there is one) and then the effect body; afterwards
\* the slot stores the function the body returned, or none.
C10_FlushOrder ==
  [][IsFlushStep =>
       /\ LogFrom(fxlog', Len(fxlog)) = ExpectedFlush(queue, hooks)
       /\ \A k \in 1..Len(queue) :
            LET e == queue[k]
                slot == hooks.state[e.path][e.cursor + 1]
            IN hooks'.state[e.path][e.cursor + 1].cleanup
                 = IF slot.effect.ret THEN slot.effect.id ELSE NoFn]_vars

\* C10 witness: a flush has just run a stored cleanup and then the effect
\* body of the same slot, whose body returned no function.
C10_Witness ==
  /\ last.act = "flush"
  /\ Len(fxlog) >= 2
  /\ fxlog[Len(fxlog) - 1].ev = "cleanup" /\ fxlog[Len(fxlog) - 1].by = "flush"
  /\ fxlog[Len(fxlog)].ev = "effect"
  /\ \E c \in Counters :
       /\ fxlog[Len(fxlog)].owner = c
       /\ ~heap[c].node.props.ret
       /\ hooks.state[heap[c].path][EffectCursor + 1].cleanup = NoFn

----------------------------------------------------------------------------
(* Observations used by C11 .. C20 *)

\* the step runs the flush job
IsFlushJob == tasks # <<>> /\ Head(tasks) = "flush" /\ last'.act = "flush"

\* the instances of the tree under i: parent before children, children in order
RECURSIVE Preorder(_, _)
RECURSIVE PreorderAll(_, _)
Preorder(h, i) == IF i = NoInst THEN <<>> ELSE <<i>> \o PreorderAll(h, h[i].children)
PreorderAll(h, cs) ==
  IF cs = <<>> THEN <<>> ELSE Preorder(h, Head(cs)) \o PreorderAll(h, Tail(cs))

\* the effect bodies the log records after its first n entries
BodiesFrom(log, n) == SelectSeq(SubSeq(log, n + 1, Len(log)), LAMBDA e : e.ev = "effect")

----------------------------------------------------------------------------
(* Properties, continued *)

\* C11: the flush runs the effect bodies of a pass in tree order: the body of
\* a component before the bodies of its descendants, the body of an earlier
\* sibling before the body of a later sibling, and the bodies of one
\* component in the order of its useEffect calls.
C11_FlushInTreeOrder ==
  [][IsFlushJob =>
       LET ran == BodiesFrom(fxlog', Len(fxlog))
           order == Preorder(heap, root)
       IN \A a, b \in 1..Len(ran) :
            a < b => \/ IndexOf(order, ran[a].owner) < IndexOf(order, ran[b].owner)
                     \/ /\ ran[a].owner = ran[b].owner
                        /\ ran[a].id < ran[b].id]_vars

\* C12: no effect body runs in a render pass.  A body runs only in the flush
\* job that follows the pass which queued it: the pass has reconciled the
\* root, stored the root instance and collected the stale paths, and the
\* flush leaves the instance tree and the render target as the pass left them.
C12_EffectsAfterPass ==
  [][LET ran == BodiesFrom(fxlog', Len(fxlog)) IN
     /\ IsRenderStep => ran = <<>>
     /\ ran # <<>>
          => /\ IsFlushJob
             /\ last.act = "render"
             /\ hooks.visited = {} /\ hooks.componentStack = <<>>
             /\ root' = root /\ heap' = heap /\ dom' = dom
             /\ \A a \in 1..Len(ran) :
                  \E k \in 1..Len(queue) :
                    /\ HasEffectEntry(hooks, queue[k].path, queue[k].cursor)
                    /\ hooks.state[queue[k].path][queue[k].cursor + 1].effect.id
                         = ran[a].id]_vars

\* C12 witness: the flush that follows an update pass which changed the
\* render target has just run an effect body.
C12_Witness ==
  /\ last.act = "flush" /\ passes >= 2
  /\ ops # <<>>
  /\ fxlog # <<>>
  /\ fxlog[Len(fxlog)].ev = "effect" /\ fxlog[Len(fxlog)].by = "flush"
  /\ heap[fxlog[Len(fxlog)].owner].born = passes

\* the number of render jobs in the microtask queue
RenderJobs(t) == Cardinality({k \in 1..Len(t) : t[k] = "render"})

\* the tree App rendered in its last pass is the tree t
AppShows(h, r, t) ==
  IF IsNull(t) THEN h[r].children = <<>>
  ELSE Len(h[r].children) = 1 /\ h[h[r].children[1]].node = t

\* C13: however many setter calls request a render while one is pending, one
\* render job is queued and one pass runs for them; the pass reads from every
\* state slot the value the last setter call wrote to it.
C13_Coalesced ==
  [][/\ RenderJobs(tasks') <= 1
     /\ (IsSetterStep /\ scheduled) => tasks' = tasks
     /\ IsRenderStep =>
          /\ RenderJobs(tasks') = 0
          /\ root # NoInst => AppShows(heap', root', StoredValue(hooks.state["0"], 0))
          /\ \A c \in Counters' :
               MapHas(hooks.state, heap'[c].path)
                 => RenderedValue(heap', c) = StoredValue(hooks.state[heap'[c].path], 0)]_vars

\* C13 witness: the second pass has just run and shows a counter two above
\* its initial value: two setter calls were served by this one pass.
C13_Witness ==
  /\ last.act = "render" /\ passes = 2
  /\ \E c \in Counters :
       /\ heap[c].born = 1 /\ heap[c].node.type = "Counter"
       /\ RenderedValue(heap, c) = CounterInit + 2

\* the cleanups the garbage collection invoked after the first n log entries
CollectedFrom(log, n) ==
  SelectSeq(SubSeq(log, n + 1, Len(log)), LAMBDA e : e.ev = "cleanup" /\ e.by = "gc")

\* how often the sequence of log entries names the cleanup id
TimesIn(entries, id) == Cardinality({k \in 1..Len(entries) : entries[k].id = id})

\* C15: the garbage collection that ends a pass takes every path of the hook
\* store that the pass did not mark reachable, invokes each cleanup stored in
\* its effect slots once and deletes its slot sequence and its cursor; the
\* slot sequence of every path marked reachable stays as reconcile left it.
C15_Collection ==
  [][IsRenderStep =>
       \A M \in {renderRoot(Pack).s} :
         \A path \in DOMAIN M.hooks.state :
           IF path \in M.hooks.visited
           THEN /\ MapHas(hooks'.state, path)
                /\ hooks'.state[path] = M.hooks.state[path]
           ELSE /\ ~MapHas(hooks'.state, path)
                /\ ~MapHas(hooks'.cursor, path)
                /\ \A k \in 1..Len(M.hooks.state[path]) :
                     LET slot == M.hooks.state[path][k] IN
                     (slot.kind = "effect" /\ slot.cleanup # NoFn)
                       => TimesIn(CollectedFrom(fxlog', Len(M.fxlog)), slot.cleanup) = 1]_vars

\* C15 witness: a pass has just collected the path of a component it
\* unmounted, invoking its cleanup, and kept the path of a sibling whose
\* counter is above its initial value.
C15_Witness ==
  /\ last.act = "render"
  /\ fxlog # <<>> /\ fxlog[Len(fxlog)].by = "gc"
  /\ ~MapHas(hooks.state, heap[fxlog[Len(fxlog)].owner].path)
  /\ \E c \in Counters :
       /\ heap[c].born < passes
       /\ StateValues(hooks.state[heap[c].path]) = <<CounterInit + 1>>

\* the component instances that are no longer in the tree
Removed(h, r) == {i \in 1..Len(h) : h[i].kind = COMPONENT /\ i \notin Reach(h, r)}

\* the mounted components whose identity path is p
Occupants(h, r, p) ==
  {c \in Reach(h, r) : h[c].kind = COMPONENT /\ h[c].node.type # "App" /\ h[c].path = p}

\* C16: after a pass, the hook store holds nothing of a component that is no
\* longer in the tree: either there are no slots at its path, or a component
\* mounted since occupies the path, and a component mounted at the path in
\* this pass has read its own initial state.
C16_PurgedAndFresh ==
  [][IsRenderStep =>
       \A i \in Removed(heap', root') :
         IF Occupants(heap', root', heap'[i].path) = {}
         THEN ~MapHas(hooks'.state, heap'[i].path)
         ELSE \A c \in Occupants(heap', root', heap'[i].path) :
                heap'[c].born = passes'
                  => RenderedValue(heap', c) = InitialOf(heap'[c].node.type)]_vars

\* the element after x in the sequence (NoDom after the last)
NextIn(seq, x) == IF IndexOf(seq, x) < Len(seq) THEN seq[IndexOf(seq, x) + 1] ELSE NoDom

\* the logged insertions replayed on the children kids of one parent: every
\* insertion of a node that is among them finds the node with a next sibling
\* other than the reference it is inserted before (none, for appendChild)
RECURSIVE MinimalMoves(_, _)
MinimalMoves(kids, log) ==
  IF log = <<>> THEN TRUE
  ELSE LET o == Head(log)
           rest == Without(kids, o.node)
       IN IF o.op = "insertBefore" /\ IndexOf(kids, o.node) > 0 /\ IndexOf(rest, o.ref) > 0
          THEN /\ NextIn(kids, o.node) # o.ref
               /\ MinimalMoves(InsertAt(rest, IndexOf(rest, o.ref), o.node), Tail(log))
          ELSE IF o.op = "appendChild" /\ IndexOf(kids, o.node) > 0
          THEN /\ NextIn(kids, o.node) # NoDom
               /\ MinimalMoves(Append(rest, o.node), Tail(log))
          ELSE MinimalMoves(kids, Tail(log))

\* C18: when updateHost gets the same all-keyed children in another (or the
\* same) order, it re-inserts a child's render-target node only when the
\* node's next sibling at that moment differs from the child's anchor.
C18_MinimalMoves ==
  [][\A i \in Alive \cap Alive' :
       (IsRenderStep /\ heap[i].kind = HOST /\ AllKeyed(heap[i].node)
          /\ IsPermutation(heap[i].node, heap'[i].node))
       => MinimalMoves(dom.kids[heap[i].dom], ops')]_vars

\* the previous child of cs that keyedMap keeps for key k: the last one
LastWithKey(h, cs, k) ==
  cs[CHOOSE j \in 1..Len(cs) :
       /\ cs[j] # NoInst /\ h[cs[j]].key = k
       /\ \A j2 \in (j+1)..Len(cs) : cs[j2] = NoInst \/ h[cs[j2]].key # k]

\* the previous children another child with the same key comes after
Shadowed(h, cs) ==
  {cs[j] : j \in {x \in 1..Len(cs) :
     /\ cs[x] # NoInst /\ h[cs[x]].key # NoKey
     /\ cs[x] # LastWithKey(h, cs, h[cs[x]].key)}}

Detached(d, n) == \A p \in DOMAIN d.kids : IndexOf(d.kids[p], n) = 0

\* C20: when several previous children of a host or fragment carry the same
\* key, a next child with that key is matched with the last of them (updated
\* in place when the types agree, replaced otherwise); the earlier ones are
\* matched by nothing and leave the tree and the DOM.
C20_LastDuplicateWins ==
  [][\A i \in Alive \cap Alive' :
       (IsRenderStep /\ heap[i].kind \in {HOST, FRAGMENT})
       => /\ \A c \in Shadowed(heap, heap[i].children) :
               /\ c \notin Alive'
               /\ \A n \in 1..Len(getDomNodes([heap |-> heap], c)) :
                    Detached(dom', getDomNodes([heap |-> heap], c)[n])
          /\ \A n \in 1..Len(heap'[i].children) :
               LET k == heap'[i].node.props.children[n].key
               IN (k # NoKey /\ \E j \in 1..Len(heap[i].children) :
                                  heap[heap[i].children[j]].key = k)
                  => IF heap[LastWithKey(heap, heap[i].children, k)].node.type
                          = heap'[i].node.props.children[n].type
                     THEN heap'[i].children[n] = LastWithKey(heap, heap[i].children, k)
                     ELSE heap'[heap'[i].children[n]].born = passes']_vars

\* a second pass has removed the earlier of two same-key children of one
\* mount and kept the later one
C20_Witness ==
  /\ passes >= 2
  /\ \E c \in 1..Len(heap), c2 \in Alive :
       /\ c \notin Alive /\ c # c2
       /\ heap[c].key # NoKey /\ heap[c].key = heap[c2].key
       /\ heap[c].born = 1 /\ heap[c2].born = 1
       /\ heap[c].kind = HOST /\ Detached(dom, heap[c].dom)

\* C17: when a surviving component that holds slots is reconciled at another
\* path, then at the moment its function is invoked the store noted by
\* updateComponent holds under the new path the slot sequence the component
\* held under the old path before the pass and holds nothing under the old
\* path, and the new path is marked visited, the old one is not; the function
\* reads the values held before the move: the pass renders the stored value
\* and leaves the state slot unchanged under the new path.
C17_PathMigration ==
  [][\A i \in AliveComponents \cap Alive' :
       (IsRenderStep /\ heap[i].path # heap'[i].path /\ heap[i].node.type # "Toggle")
       => \E old \in {heap[i].path} : \E new \in {heap'[i].path} :
            /\ MapHas(hooks.state, old)
            /\ \E k \in (Len(fxlog) + 1)..Len(fxlog') :
                 /\ fxlog'[k].ev = "migrated" /\ fxlog'[k].owner = i
                 /\ fxlog'[k].old = old /\ fxlog'[k].path = new
                 /\ MapHas(fxlog'[k].state, new)
                 /\ fxlog'[k].state[new] = hooks.state[old]
                 /\ ~MapHas(fxlog'[k].state, old)
                 /\ new \in fxlog'[k].visited /\ old \notin fxlog'[k].visited
            /\ MapHas(hooks'.state, new)
            /\ hooks'.state[new][1] = hooks.state[old][1]
            /\ RenderedValue(heap', i) = hooks.state[old][1].value
            /\ (MapHas(hooks'.state, old) => Occupants(heap', root', old) # {})]_vars

\* a Counter whose state was changed was moved by the last pass from the
\* path it was mounted at to another one, and renders the changed value
C17_Witness ==
  \E i \in Counters :
    /\ last.act = "render" /\ heap[i].born = 1 /\ passes >= 2
    /\ heap[i].path # heap[i].mountPath
    /\ \E k \in 1..Len(fxlog) :
         /\ fxlog[k].ev = "migrated" /\ fxlog[k].owner = i
         /\ fxlog[k].old = heap[i].mountPath /\ fxlog[k].path = heap[i].path
    /\ MapHas(hooks.state, heap[i].path) /\ ~MapHas(hooks.state, heap[i].mountPath)
    /\ RenderedValue(heap, i) = CounterInit + 1

\* the effect hook a queue entry names, if the store still has it
EntryHooks(hs, e) ==
  IF MapHas(hs.state, e.path) /\ e.cursor + 1 \in 1..Len(hs.state[e.path])
     /\ hs.state[e.path][e.cursor + 1].kind = "effect"
  THEN {hs.state[e.path][e.cursor + 1]} ELSE {}

\* C19: a flush runs the body of every effect in the queue, also of those
\* queued after an effect whose body throws.
C19_EveryEntryRuns ==
  [][IsFlushJob
       => \A k \in 1..Len(queue) : \A hook \in EntryHooks(hooks, queue[k]) :
            \E n \in (Len(fxlog) + 1)..Len(fxlog') :
              /\ fxlog'[n].ev = "effect" /\ fxlog'[n].by = "flush"
              /\ fxlog'[n].id = hook.effect.id]_vars

\* some state slot of the store holds another value after the step
StateWritten ==
  \E p \in DOMAIN hooks.state \cap DOMAIN hooks'.state :
    StateValues(hooks'.state[p]) # StateValues(hooks.state[p])

\* C14: a setter called by an effect body during the flush starts no render
\* pass inside the flush (no pass is counted, tree and render target are as
\* they were); when it changed a value, a render job is pending once the
\* flush has returned.
C14_SetterInEffectDefers ==
  [][IsFlushJob
       => /\ passes' = passes /\ heap' = heap /\ dom' = dom /\ root' = root
          /\ StateWritten => (tasks' = <<"render">> /\ scheduled')]_vars

\* a flush has returned after Syncer's effect wrote its state: the value is
\* stored, the tree still shows the old one, and a render job is pending
C14_Witness ==
  /\ last.act = "flush" /\ tasks = <<"render">>
  /\ \E i \in Counters :
       /\ heap[i].node.type = "Syncer"
       /\ StoredValue(hooks.state[heap[i].path], 0) = SyncValue
       /\ RenderedValue(heap, i) = OtherInit

\* C21: a render pass raises no error from the render target: no removal,
\* move or anchored insertion is applied to a node that is not a child of the
\* parent it is applied under, also when a previous instance is matched by
\* two next children or was removed earlier in the pass.
C21_NoDetachedOperation ==
  [][(tasks # <<>> /\ Head(tasks) = "render" /\ passes' = passes + 1)
       => last'.act # "crash"]_vars

\* the keys of the children of a node
KeysOf(node) == {node.props.children[n].key : n \in 1..Len(node.props.children)}

\* the host or fragment instances that hold c as a child
ParentsOf(h, r, c) ==
  {p \in Reach(h, r) : h[p].kind \in {HOST, FRAGMENT}
                       /\ \E n \in 1..Len(h[p].children) : h[p].children[n] = c}

\* C22: when a pass updates a host or fragment and the key of one of its
\* keyed components is not among the next children, the component leaves the
\* tree and its slots leave the store in that pass; a component mounted in a
\* pass under a key its parent did not have before starts from its initial
\* state.
C22_AbsentKeyDestroyed ==
  [][IsRenderStep =>
       /\ \A c \in Counters : \A p \in ParentsOf(heap, root, c) \cap Alive' :
            (heap[c].key # NoKey /\ heap[c].key \notin KeysOf(heap'[p].node))
            => /\ c \notin Alive'
               /\ ~MapHas(hooks'.state, heap[c].path)
       /\ \A n \in Counters' : \A p \in ParentsOf(heap', root', n) \cap Alive :
            (heap'[n].born = passes' /\ heap'[n].key # NoKey
               /\ heap'[n].key \notin KeysOf(heap[p].node))
            => RenderedValue(heap', n) = InitialOf(heap'[n].node.type)]_vars

\* the render-target node instance c owns is the one it owned, where it was
KeepsNode(c) ==
  heap[c].kind \in {HOST, TEXT}
    => /\ heap'[c].dom = heap[c].dom
       /\ dom'.par[heap[c].dom] = dom.par[heap[c].dom]
       /\ dom'.tag[heap[c].dom] = dom.tag[heap[c].dom]
       /\ \A n \in 1..Len(ops') :
            ops'[n].node = heap[c].dom => ops'[n].op # "removeChild"

\* reconcile(c0, node) gave c1: the same object when type and key agree,
\* another one, made by this pass, when they do not
SameOrNew(c0, c1) ==
  IF heap[c0].node.type = heap'[c1].node.type /\ heap[c0].key = heap'[c1].node.key
  THEN c1 = c0 /\ KeepsNode(c0)
  ELSE c1 # c0 /\ heap'[c1].born = passes'

\* C23: in a pass, reconcile of a component's previous child, of the root,
\* or of a keyed child found by its key returns the same instance, with the
\* render-target node it owned left where it was, when the next node has the
\* type and key of the instance; it returns an instance made by this pass
\* when type or key differ.
C23_UpdateInPlace ==
  [][IsRenderStep =>
       /\ root # NoInst => root' = root
       /\ \A p \in AliveComponents \cap Alive' :
            (heap'[p].gone = "" /\ Len(heap[p].children) = 1 /\ Len(heap'[p].children) = 1)
            => SameOrNew(heap[p].children[1], heap'[p].children[1])
       /\ \A p \in Alive \cap Alive' :
            (heap'[p].gone = "" /\ heap[p].kind \in {HOST, FRAGMENT})
            => \A n \in 1..Len(heap'[p].children) :
                 LET k == heap'[p].node.props.children[n].key
                 IN (k # NoKey /\ k \in KeysOf(heap[p].node)
                       /\ Cardinality({m \in 1..Len(heap'[p].children) :
                                         heap'[p].node.props.children[m].key = k}) = 1)
                    => SameOrNew(LastWithKey(heap, heap[p].children, k),
                                 heap'[p].children[n])]_vars

\* a pass has given the keyed child of App a node of its type and key with
\* another dependency list: child and element are the ones of the first pass
C23_Witness ==
  /\ last.act = "render" /\ passes >= 2
  /\ \E c \in Counters :
       /\ heap[c].born = 1 /\ heap[c].key = KeyName(1) /\ heap[c].fxChanges >= 1
       /\ heap[root].born = 1 /\ heap[root].children = <<c>>
       /\ heap[heap[c].children[1]].born = 1
       /\ dom.par[heap[heap[c].children[1]].dom] = Container

\* the path the parent p reconciles the child in slot n at
SlotPath(h, p, n) ==
  IF h[p].kind = COMPONENT THEN h[p].path \o ".c0"
  ELSE createChildPath(h[p].path, h[p].node.props.children[n].key, n - 1,
                       h[p].node.props.children[n].type)

\* C24: after a render pass every instance in the tree holds the path its
\* parent reconciled it at, and the instances under one parent hold pairwise
\* distinct paths.
C24_PathsCurrentAndDistinct ==
  last.act = "render"
    => \A p \in Alive : \A n \in 1..Len(heap[p].children) :
         heap[p].children[n] # NoInst
         => /\ heap[heap[p].children[n]].path = SlotPath(heap, p, n)
            /\ \A m \in 1..(n - 1) :
                 heap[p].children[m] \notin {NoInst, heap[p].children[n]}
                 => heap[heap[p].children[m]].path # heap[heap[p].children[n]].path

\* the wrapped function was invoked for component c in this step
InnerCalled(c) ==
  \E n \in (Len(fxlog) + 1)..Len(fxlog') :
    fxlog'[n].ev = "call" /\ fxlog'[n].owner = c

\* ref.current of the memoised component c before the step
MemoRef(c) == hooks.state[heap[c].path][1].value.current

\* C25: a memo-wrapped component invokes the wrapped function in its first
\* render and in every render whose props are not equal (shallowEquals for
\* memo, deepEquals for deepMemo) to the props of the last invocation; with
\* equal props it does not invoke it and returns the last invocation's result.
C25_MemoSkipsEqualProps ==
  [][IsRenderStep =>
       \A c \in 1..Len(heap') :
         (heap'[c].gone = "" /\ heap'[c].node.type \in MemoTypes) =>
           IF heap'[c].born = passes' THEN InnerCalled(c)
           ELSE /\ InnerCalled(c) <=>
                     ~PropsEqual(heap'[c].node.type = "DeepMemo",
                                 MemoRef(c).props, heap'[c].node.props)
                /\ ~InnerCalled(c) =>
                     heap'[heap'[c].children[1]].node = MemoRef(c).result]_vars

\* the hosts updated in place by this step
UpdatedHosts ==
  {p \in Alive \cap Alive' : heap[p].kind = HOST /\ heap'[p].born < passes'}

\* the previous children of host p still unconsumed when slot n is matched
FreeBefore(p, n) ==
  {j \in 1..Len(heap[p].children) :
     /\ heap[p].children[j] # NoInst
     /\ \A m \in 1..(n - 1) : heap'[p].children[m] # heap[p].children[j]}

\* the previous child the rule of C26 gives slot n of host p (0: none)
RuleIndex(p, n) ==
  LET prev == heap[p].children
      type == heap'[p].node.props.children[n].type
      byPath == {j \in FreeBefore(p, n) :
                   heap[prev[j]].path = createChildPath(heap'[p].path, NoKey, n - 1, type)}
      sameType == {j \in FreeBefore(p, n) :
                     heap[prev[j]].key = NoKey /\ heap[prev[j]].node.type = type}
      nearest == {j \in sameType : \A k \in sameType : Abs(j - n) <= Abs(k - n)}
  IN IF byPath # {} THEN MinOf(byPath)
     ELSE IF sameType = {} THEN 0
     ELSE IF n = Len(heap'[p].node.props.children) THEN MaxOf(sameType)
     ELSE MinOf(nearest)

\* C26: updateHost gives an unkeyed next child at index i the unconsumed
\* previous child with the identical path; else, at the last index, the
\* unconsumed unkeyed previous child of the same type with the largest index;
\* else the one nearest to i, the lowest index winning ties; else none (a new
\* instance is mounted).  No previous child is given to two unkeyed children.
C26_UnkeyedMatchOrder ==
  [][IsRenderStep =>
       \A p \in UpdatedHosts :
         \A n \in 1..Len(heap'[p].node.props.children) :
           heap'[p].node.props.children[n].key = NoKey =>
             /\ IF RuleIndex(p, n) = 0
                THEN heap'[heap'[p].children[n]].born = passes'
                ELSE heap'[p].children[n] = heap[p].children[RuleIndex(p, n)]
             /\ \A m \in 1..(n - 1) :
                  heap'[p].node.props.children[m].key = NoKey
                    => heap'[p].children[m] # heap'[p].children[n]]_vars

\* of three Counters that were the first, second and fourth child, the second
\* one is now the third of four children, not the last one, and the other two
\* are gone: of the two nearest candidates, the second and the fourth, the one
\* with the lower index was taken, not the first, which has the lowest index
C26_Witness ==
  \E p \in Alive : \E c1, c2, c4 \in 1..Len(heap) :
    /\ last.act = "render"
    /\ heap[p].kind = HOST /\ Len(heap[p].children) = 4 /\ heap[p].children[3] = c2
    /\ heap[p].born < passes /\ heap[c2].born < passes
    /\ c1 \notin Alive /\ c4 \notin Alive
    /\ \A c \in {c1, c2, c4} : heap[c].node.type = "Counter" /\ heap[c].key = NoKey
    /\ heap[c1].path = createChildPath(heap[p].path, NoKey, 0, "Counter")
    /\ heap[c2].mountPath = createChildPath(heap[p].path, NoKey, 1, "Counter")
    /\ heap[c4].path = createChildPath(heap[p].path, NoKey, 3, "Counter")
    /\ heap[c2].path = createChildPath(heap[p].path, NoKey, 2, "Counter")

\* the fragments updated in place by this step
UpdatedFragments ==
  {p \in Alive \cap Alive' : heap[p].kind = FRAGMENT /\ heap'[p].born < passes'}

\* C27: updateFragment gives every unkeyed next child the previous child the
\* rule of updateHost gives it (identical path, else the same-type fallback by
\* index), and a new instance only where that rule finds none.
C27_FragmentMatchesLikeHost ==
  [][IsRenderStep =>
       \A p \in UpdatedFragments :
         \A n \in 1..Len(heap'[p].node.props.children) :
           heap'[p].node.props.children[n].key = NoKey =>
             IF RuleIndex(p, n) = 0
             THEN heap'[heap'[p].children[n]].born = passes'
             ELSE heap'[p].children[n] = heap[p].children[RuleIndex(p, n)]]_vars

\* the render-target parent the children of instance p are placed under: its
\* own node for a host, for the others that of the nearest host above
\* (the container at the top)
RECURSIVE ParentDomOf(_, _, _)
ParentDomOf(h, r, p) ==
  IF h[p].kind = HOST THEN h[p].dom
  ELSE IF p = r THEN Container
  ELSE ParentDomOf(h, r, CHOOSE q \in Reach(h, r) :
                           \E n \in 1..Len(h[q].children) : h[q].children[n] = p)

\* the top render-target nodes of instance c in heap h, as a set
TopDoms(h, c) ==
  {getDomNodes([heap |-> h], c)[k] : k \in 1..Len(getDomNodes([heap |-> h], c))}

\* C28: after a host or fragment is updated, a previous child that is not
\* among its children any more (matched by no next child) or was replaced by
\* a remount has none of its render-target nodes under the parent, and a
\* previous child that is kept has all of its nodes under the parent.
C28_UnusedRemovedUsedKept ==
  [][IsRenderStep =>
       \A p \in UpdatedHosts \cup UpdatedFragments :
         \A j \in 1..Len(heap[p].children) :
           heap[p].children[j] # NoInst =>
             IF /\ \E n \in 1..Len(heap'[p].children) :
                     heap'[p].children[n] = heap[p].children[j]
                /\ heap'[heap[p].children[j]].gone = ""
             THEN \A d \in TopDoms(heap', heap[p].children[j]) :
                    dom'.par[d] = ParentDomOf(heap', root', p)
             ELSE \A d \in TopDoms(heap, heap[p].children[j]) :
                    dom'.par[d] # ParentDomOf(heap', root', p)]_vars

\* a pass has updated a host or fragment that keeps a child from an earlier
\* pass, its nodes under the parent, and has dropped another child, whose
\* nodes hang nowhere
C28_Witness ==
  /\ last.act = "render"
  /\ \E p \in Alive :
       /\ heap[p].kind \in {HOST, FRAGMENT} /\ heap[p].born < passes
       /\ \E n \in 1..Len(heap[p].children) :
            /\ heap[heap[p].children[n]].born < passes
            /\ TopDoms(heap, heap[p].children[n]) # {}
            /\ \A d \in TopDoms(heap, heap[p].children[n]) :
                 dom.par[d] = ParentDomOf(heap, root, p)
       /\ \E c \in 1..Len(heap) : \E x \in 0..2 :
            /\ c \notin Alive /\ heap[c].gone = "unlisted"
            /\ heap[c].path = createChildPath(heap[p].path, heap[c].key, x, heap[c].node.type)
            /\ TopDoms(heap, c) # {}
            /\ \A d \in TopDoms(heap, c) : Detached(dom, d)

\* C29: when a pass updates a component or fragment that is not the last
\* child of its host and mounts new render-target nodes under it, the nodes
\* come before the first node of the following sibling: the host's
\* render-target children are in the order of its children.
C29_GrowthKeepsOrder ==
  [][IsRenderStep =>
       \A p \in UpdatedHosts :
         (\E n \in 1..(Len(heap'[p].children) - 1) :
            /\ heap'[p].children[n] \in Alive
            /\ heap'[heap'[p].children[n]].kind \in {COMPONENT, FRAGMENT}
            /\ TopDoms(heap', heap'[p].children[n])
                 \ TopDoms(heap, heap'[p].children[n]) # {})
         => dom'.kids[heap'[p].dom] = ChildDomOrder(heap', p)]_vars

\* C30: when updateHost gives an unkeyed next child a previous child that
\* stood at another index, the host's render-target children end in the order
\* of its new children.
C30_ShiftedMatchKeepsOrder ==
  [][IsRenderStep =>
       \A p \in UpdatedHosts :
         (\E n \in 1..Len(heap'[p].children) : \E j \in 1..Len(heap[p].children) :
            /\ j # n
            /\ heap'[p].node.props.children[n].key = NoKey
            /\ heap'[p].children[n] = heap[p].children[j])
         => dom'.kids[heap'[p].dom] = ChildDomOrder(heap', p)]_vars

\* the tree App shows in the pass that is about to run
AppTree == IF passes = 0 THEN prog ELSE hooks.state["0"][1].value

\* C31: what a component returns goes through normalizeNode before it is
\* reconciled, when the component is mounted as when it is updated: after a
\* pass over a Toggle that returns null, a number, a string, true or an
\* array, the pass has not raised and the Toggle's child is the instance of
\* the normalized value (none when that is null).
C31_NormalizedOnMountAndUpdate ==
  [][(tasks # <<>> /\ Head(tasks) = "render" /\ passes' = passes + 1
        /\ AppTree \in ToggleScenes /\ AppTree.props.v \in {0, 3, 4, 5, 6})
     => /\ last'.act = "render"
        /\ \A c \in Alive' :
             heap'[c].node.type = "Toggle" =>
               IF IsNull(normalizeNode(ToggleOut(heap'[c].node.props.v)))
               THEN heap'[c].children = <<>>
               ELSE /\ Len(heap'[c].children) = 1
                    /\ heap'[heap'[c].children[1]].node
                         = normalizeNode(ToggleOut(heap'[c].node.props.v))]_vars

\* C32: when a pass updates a component whose function returns a node, the
\* component ends the pass with exactly one child, the instance of that
\* node, and the child's render-target nodes hang under the container; also
\* when the child before was a fragment and the node has no children.
C32_UpdateKeepsOneChild ==
  [][IsRenderStep =>
       \A c \in Alive \cap Alive' :
         (heap'[c].node.type = "Toggle" /\ heap'[c].born < passes'
            /\ ~IsNull(normalizeNode(ToggleOut(heap'[c].node.props.v))))
         => /\ Len(heap'[c].children) = 1
            /\ heap'[heap'[c].children[1]].node
                 = normalizeNode(ToggleOut(heap'[c].node.props.v))
            /\ TopDoms(heap', heap'[c].children[1]) # {}
            /\ \A d \in TopDoms(heap', heap'[c].children[1]) : InContainer(dom', d)]_vars

\* the evaluations of an initial value noted in this step
NewEvaluations ==
  {n \in (Len(fxlog) + 1)..Len(fxlog') : fxlog'[n].ev = "init"}

\* C33: useState evaluates its initial value only in the first call for a
\* path and slot index: a pass evaluates it for no slot the store already
\* holds and never twice for one slot, and a component rendered again at its
\* path gets the value its slot holds, which the pass leaves in the slot.
C33_InitialValueOnce ==
  [][IsRenderStep =>
       /\ \A n \in NewEvaluations :
            /\ ~(MapHas(hooks.state, fxlog'[n].path)
                   /\ fxlog'[n].id < Len(hooks.state[fxlog'[n].path]))
            /\ \A m \in NewEvaluations :
                 (fxlog'[m].path = fxlog'[n].path /\ fxlog'[m].id = fxlog'[n].id) => m = n
       /\ \A c \in Counters \cap Alive' :
            (heap'[c].path = heap[c].path /\ MapHas(hooks.state, heap[c].path))
            => /\ RenderedValue(heap', c) = hooks.state[heap[c].path][1].value
               /\ hooks'.state[heap[c].path][1] = hooks.state[heap[c].path][1]
               /\ \A n \in NewEvaluations : fxlog'[n].path # heap[c].path]_vars

\* a Counter mounted in the first pass has been rendered again after its
\* state was changed: it shows the changed value, and the log holds one
\* evaluation of the initial value of its slot
C33_Witness ==
  /\ last.act = "render" /\ passes >= 2
  /\ \E c \in Counters :
       /\ heap[c].born = 1 /\ heap[c].node.type = "Counter"
       /\ RenderedValue(heap, c) = CounterInit + 1
       /\ Cardinality({n \in 1..Len(fxlog) :
                         /\ fxlog[n].ev = "init" /\ fxlog[n].path = heap[c].path
                         /\ fxlog[n].id = 0}) = 1

\* C34: a setter call writes the slot of its component under the path the
\* component has now: every slot sequence the call creates or changes lies
\* under the current path of a mounted component, also when the setter was
\* obtained before the component's path was migrated.
C34_SetterFollowsMigration ==
  [][IsSetterStep =>
       \A p \in DOMAIN hooks'.state :
         (~MapHas(hooks.state, p) \/ hooks'.state[p] # hooks.state[p])
         => \E c \in AliveComponents : heap[c].path = p]_vars

\* the step is a setter call through a path the store has no entry for and
\* no mounted component was given
IsCollectedSetterStep ==
  /\ IsSetterStep
  /\ ~MapHas(hooks.state, last'.path)
  /\ \A c \in AliveComponents : last'.path \notin SetterPaths(c)

\* the paths of the mounted components
AlivePaths == {heap[c].path : c \in AliveComponents}

\* the Counters the pass of this step mounted at a path no component was
\* mounted at before the pass
MountedCounters ==
  {c \in AliveComponents' : /\ heap'[c].born = passes' /\ heap'[c].node.type = "Counter"
                            /\ heap'[c].path \notin AlivePaths}

\* C35: calling the setter of a component whose path was garbage collected
\* leaves the hook store without an entry for that path, and a component the
\* next pass mounts at that path holds its own initial value.
C35_CollectedSetterLeavesNoEntry ==
  [][/\ IsCollectedSetterStep => ~MapHas(hooks'.state, last'.path)
     /\ IsRenderStep =>
          \A c \in MountedCounters :
            StoredValue(hooks'.state[heap'[c].path], 0) = CounterInit]_vars

\* the effects that were queued and that no flush has invoked since
Unrun ==
  {n \in 1..Len(fxlog) :
     /\ fxlog[n].ev = "queued"
     /\ ~\E m \in (n + 1)..Len(fxlog) :
          fxlog[m].ev = "effect" /\ fxlog[m].by = "flush" /\ fxlog[m].id = fxlog[n].id}

\* C36: every effect a completed render pass has queued is eventually invoked
\* by a flush (unless an effect body raised an error), whatever the order of
\* the render and flush jobs.
C36_EnqueuedEffectsRun ==
  (last.act = "render" /\ Unrun # {}) ~> (Unrun = {} \/ threw)

\* C37: when the setter of a component wrapped in memo has committed a new
\* value, the render pass that follows invokes the wrapped function for that
\* component and the element it shows carries the new value, whether or not
\* the props given to the wrapper changed.
C37_MemoStateRerenders ==
  [][(IsRenderStep /\ last.act = "setState" /\ last.req) =>
       \A c \in AliveComponents \cap AliveComponents' :
         (heap[c].node.type = "MemoCounter" /\ heap'[c].node.type = "MemoCounter"
            /\ last.path = heap[c].path /\ last.cursor = 1)
         => /\ InnerCalled(c)
            /\ RenderedValue(heap', c) = StoredValue(hooks'.state[heap'[c].path], 1)]_vars

\* the mounted components whose function calls a hook (Toggle calls none)
HookCallers == {c \in AliveComponents : heap[c].node.type # "Toggle"}

\* C38: after every completed render pass the paths of the hook store are
\* exactly the identity paths of the mounted components that call a hook, the
\* set of visited paths is empty and the stack of active paths is empty.
C38_StoreMatchesTree ==
  (last.act = "render") =>
    /\ DOMAIN hooks.state = {heap[c].path : c \in HookCallers}
    /\ hooks.visited = {}
    /\ hooks.componentStack = <<>>

====
